---- MODULE Spec2Model ----
(***************************************************************************)
(* MUJ Event Portal: the Firestore data layer (config/db.js), the SQL-like *)
(* query shim it exports, and the routes that call it.                     *)
(*                                                                         *)
(* Text is modelled character by character: a string is a tuple of         *)
(* one-character strings, so that trim, toLowerCase, toUpperCase,          *)
(* includes, parseInt and document-id ordering are computed, not assumed.  *)
(* The createdAt/updatedAt server timestamps, which no operation reads,    *)
(* are not modelled.                                                       *)
(***************************************************************************)
EXTENDS Integers, Sequences, FiniteSets, TLC

VARIABLES
    events,         \* the events collection: a set of documents
    registrations,  \* the registrations collection
    users,          \* the users collection
    regReq,         \* POST /register requests, or requests to protected
                    \* routes, in flight
    userCall,       \* login requests and createUser calls in flight
    last,           \* the latest completed call or handler step, and its result
    inserted,       \* insertId -> the parameters of the event insert that
                    \* returned it, until that event is deleted
    session,        \* req.session of the browser: idToken and user
    cookies         \* the cookies the browser sends: idToken

vars == <<events, registrations, users, regReq, userCall, last, inserted,
         session, cookies>>

----------------------------------------------------------------------------
(* Characters and strings                                                  *)

\* The characters in use, in ascending code-unit order.
Ascii ==
    <<"\t", "\n", " ", "(", ")", "*", ",", ".",
      "0", "1", "2", "3", "4", "5", "6", "7", "8", "9", "=", "?", "@",
      "A", "B", "C", "D", "E", "F", "G", "H", "I", "J", "K", "L", "M",
      "N", "O", "P", "Q", "R", "S", "T", "U", "V", "W", "X", "Y", "Z", "_",
      "a", "b", "c", "d", "e", "f", "g", "h", "i", "j", "k", "l", "m",
      "n", "o", "p", "q", "r", "s", "t", "u", "v", "w", "x", "y", "z">>

Code(c) == CHOOSE i \in 1..Len(Ascii) : Ascii[i] = c

LowerLetters == SubSeq(Ascii, Code("a"), Code("z"))
UpperLetters == SubSeq(Ascii, Code("A"), Code("Z"))
Digits == {"0", "1", "2", "3", "4", "5", "6", "7", "8", "9"}

IsSpace(c) == c \in {" ", "\t", "\n"}

UpperChar(c) ==
    IF \E i \in 1..Len(LowerLetters) : LowerLetters[i] = c
    THEN UpperLetters[CHOOSE i \in 1..Len(LowerLetters) : LowerLetters[i] = c]
    ELSE c

LowerChar(c) ==
    IF \E i \in 1..Len(UpperLetters) : UpperLetters[i] = c
    THEN LowerLetters[CHOOSE i \in 1..Len(UpperLetters) : UpperLetters[i] = c]
    ELSE c

\* String.prototype.toUpperCase / toLowerCase
toUpperCase(s) == [i \in 1..Len(s) |-> UpperChar(s[i])]
toLowerCase(s) == [i \in 1..Len(s) |-> LowerChar(s[i])]

RECURSIVE TrimStart(_)
TrimStart(s) ==
    IF s # <<>> /\ IsSpace(Head(s)) THEN TrimStart(Tail(s)) ELSE s

RECURSIVE TrimEnd(_)
TrimEnd(s) ==
    IF s # <<>> /\ IsSpace(s[Len(s)]) THEN TrimEnd(SubSeq(s, 1, Len(s) - 1)) ELSE s

\* String.prototype.trim
trim(s) == TrimEnd(TrimStart(s))

\* s.replace(/\s+/g, ' '): every maximal run of whitespace becomes one space.
\* Computed by halves: a run that spans the cut leaves a space on both sides.
RECURSIVE CollapseSpaces(_)
CollapseSpaces(s) ==
    IF s = <<>> THEN <<>>
    ELSE IF Len(s) = 1 THEN (IF IsSpace(s[1]) THEN <<" ">> ELSE s)
    ELSE LET m == Len(s) \div 2
             l == CollapseSpaces(SubSeq(s, 1, m))
             r == CollapseSpaces(SubSeq(s, m + 1, Len(s)))
         IN  IF l[Len(l)] = " " /\ IsSpace(s[m + 1]) THEN l \o Tail(r) ELSE l \o r

\* String.prototype.includes / startsWith
includes(s, p) ==
    \E i \in 0..(Len(s) - Len(p)) : SubSeq(s, i + 1, i + Len(p)) = p

startsWith(s, p) == Len(p) <= Len(s) /\ SubSeq(s, 1, Len(p)) = p

\* Code-unit (lexicographic) order, the order Firestore gives string values
\* and document ids.
RECURSIVE StrLess(_, _)
StrLess(s, t) ==
    IF t = <<>> THEN FALSE
    ELSE IF s = <<>> THEN TRUE
    ELSE IF Head(s) = Head(t) THEN StrLess(Tail(s), Tail(t))
    ELSE Code(Head(s)) < Code(Head(t))

\* parseInt(s): the value of the longest leading run of decimal digits after
\* leading whitespace, <<n>>; or NaN, <<>>, when there is none.
DigitValue(c) == Code(c) - Code("0")

RECURSIVE LeadingDigits(_, _)
LeadingDigits(s, acc) ==
    IF s # <<>> /\ Head(s) \in Digits
    THEN LeadingDigits(Tail(s), <<acc[1] * 10 + DigitValue(Head(s)), TRUE>>)
    ELSE acc

NaN == <<>>

parseInt(s) ==
    LET r == LeadingDigits(TrimStart(s), <<0, FALSE>>)
    IN  IF r[2] THEN <<r[1]>> ELSE NaN

----------------------------------------------------------------------------
(* The document store (Firestore) and the data layer of config/db.js       *)

\* Outcomes of one store call: success, or a failure with a status code.
StoreOk == {"ok"}
StoreAny == {"ok", "NOT_FOUND", "UNAVAILABLE"}

\* JavaScript null and undefined.
Null == [isNull |-> TRUE]
Undefined == [isUndefined |-> TRUE]

\* A JavaScript number (a non-negative integer) is the tag followed by its
\* decimal digits; every other sequence is a string, one character each.
NumberTag == "#number"
Number19 == <<NumberTag, "1", "9">>

IsString(x) == \A i \in 1..Len(x) : \E k \in 1..Len(Ascii) : Ascii[k] = x[i]

\* String(x)
String(x) ==
    IF x = Undefined THEN <<"u", "n", "d", "e", "f", "i", "n", "e", "d">>
    ELSE IF x # <<>> /\ x[1] = NumberTag THEN Tail(x)
    ELSE x

\* Document ids the store's auto-id generator can hand out: alphanumeric
\* strings of one fixed length (none starts with a sign or "0x").
AutoIds == { <<"1", "9">>, <<"9", "1">>, <<"a", "1">>, <<"b", "7">> }

\* The ids among them that the generator hands to new events.
EventAutoIds == { <<"1", "9">>, <<"a", "1">> }

\* The documents of a collection in ascending document-id order, the order
\* of a query that names no other.
RECURSIVE DocsById(_)
DocsById(S) ==
    IF S = {} THEN <<>>
    ELSE LET m == CHOOSE d \in S : \A o \in S \ {d} : StrLess(d.id, o.id)
         IN  <<m>> \o DocsById(S \ {m})

DateIdLessNoOrderBy(d, o) == StrLess(d.id, o.id)

\* orderBy('date', 'asc'): ascending date, ties in ascending document id.
DateIdLess(d, o) ==
    StrLess(d.date, o.date) \/ (d.date = o.date /\ StrLess(d.id, o.id))

RECURSIVE DocsByDate(_)
DocsByDate(S) ==
    IF S = {} THEN <<>>
    ELSE LET m == CHOOSE d \in S : \A o \in S \ {d} : DateIdLess(d, o)
         IN  <<m>> \o DocsByDate(S \ {m})

Range(seq) == { seq[i] : i \in 1..Len(seq) }

\* docToObject(doc) for the document with this id in collection S, or null.
docToObject(S, id) ==
    IF \E d \in S : d.id = id THEN CHOOSE d \in S : d.id = id ELSE Null

\* Each data-layer function is the set of its possible outcomes: one per
\* outcome in F of each store call it makes.  calls lists the store calls
\* made, threw says whether the function raised.

getAllEvents(F) ==
    { [threw |-> FALSE,
       value |-> IF e = "ok" THEN DocsByDate(events) ELSE <<>>,
       calls |-> <<"events.orderBy.get">>, errs |-> <<e>>] : e \in F }

\* getEventById with a catch block that rethrows.
getEventByIdRaises(id, F) ==
    { [threw |-> e # "ok",
       value |-> IF e = "ok" THEN docToObject(events, String(id)) ELSE Null,
       calls |-> <<"events.doc.get">>, errs |-> <<e>>] : e \in F }

getEventById(id, F) ==
    { [threw |-> FALSE,
       value |-> IF e = "ok" THEN docToObject(events, String(id)) ELSE Null,
       calls |-> <<"events.doc.get">>, errs |-> <<e>>] : e \in F }

eventDocVenueFromTitle(eventData, id) ==
    [id |-> id, title |-> eventData.title, date |-> eventData.date,
     venue |-> eventData.title]

\* The document createEvent adds, as docToObject returns it.
eventDoc(eventData, id) ==
    [id |-> id, title |-> eventData.title, date |-> eventData.date,
     venue |-> eventData.venue]

\* EVENTS_COLLECTION.add rejects a document with an undefined field.
\* createEvent writing under an id that may be in use.
createEventAnyId(eventData, F) ==
    LET valid == Undefined \notin {eventData.title, eventData.date, eventData.venue}
        addErrors == IF valid THEN F \ {"ok"} ELSE {"INVALID_ARGUMENT"}
        added == IF valid /\ "ok" \in F
                 THEN { eventDoc(eventData, i) : i \in EventAutoIds }
                 ELSE {}
    IN
    { [threw |-> TRUE, value |-> Null, events |-> events,
       calls |-> <<"events.add">>, errs |-> <<e>>] : e \in addErrors }
    \cup
    { [threw |-> o[2] # "ok",
       value |-> IF o[2] = "ok" THEN o[1] ELSE Null,
       events |-> {d \in events : d.id # o[1].id} \cup {o[1]},
       calls |-> <<"events.add", "events.doc.get">>,
       errs |-> <<"ok", o[2]>>] : o \in added \X F }

createEvent(eventData, F) ==
    LET valid == Undefined \notin {eventData.title, eventData.date, eventData.venue}
        addErrors == IF valid THEN F \ {"ok"} ELSE {"INVALID_ARGUMENT"}
        freeIds == {i \in EventAutoIds : \A d \in events : d.id # i}
        added == IF valid /\ "ok" \in F
                 THEN { eventDoc(eventData, i) : i \in freeIds }
                 ELSE {}
    IN
    { [threw |-> TRUE, value |-> Null, events |-> events,
       calls |-> <<"events.add">>, errs |-> <<e>>] : e \in addErrors }
    \cup
    { [threw |-> o[2] # "ok",
       value |-> IF o[2] = "ok" THEN o[1] ELSE Null,
       events |-> events \cup {o[1]},
       calls |-> <<"events.add", "events.doc.get">>,
       errs |-> <<"ok", o[2]>>] : o \in added \X F }

deleteEvent(id, F) ==
    { [threw |-> e # "ok",
       value |-> e = "ok",
       events |-> IF e = "ok" THEN {d \in events : d.id # String(id)} ELSE events,
       calls |-> <<"events.doc.delete">>, errs |-> <<e>>] : e \in F }

getAllRegistrations(F) ==
    { [threw |-> FALSE,
       value |-> IF e = "ok" THEN DocsById(registrations) ELSE <<>>,
       calls |-> <<"registrations.get">>, errs |-> <<e>>] : e \in F }

getRegistrationsByEventIdOfLiveEvent(eventId, F) ==
    { [threw |-> FALSE,
       value |-> IF e = "ok"
                 THEN DocsById({r \in registrations :
                                  /\ r.event_id = String(eventId)
                                  /\ \E ev \in events : ev.id = r.event_id})
                 ELSE <<>>,
       calls |-> <<"registrations.where.get">>, errs |-> <<e>>] : e \in F }

getRegistrationsByEventId(eventId, F) ==
    { [threw |-> FALSE,
       value |-> IF e = "ok"
                 THEN DocsById({r \in registrations : r.event_id = String(eventId)})
                 ELSE <<>>,
       calls |-> <<"registrations.where.get">>, errs |-> <<e>>] : e \in F }

isEmailRegisteredForEventCaseSensitive(email, eventId, F) ==
    IF email = Undefined
    THEN { [threw |-> FALSE, value |-> FALSE, calls |-> <<>>, errs |-> <<>>] }
    ELSE { [threw |-> FALSE,
            value |-> e = "ok" /\ \E r \in registrations :
                          /\ r.email = email
                          /\ r.event_id = String(eventId),
            calls |-> <<"registrations.where.get">>, errs |-> <<e>>] : e \in F }

\* isEmailRegisteredForEvent normalising the email as createRegistration does.
isEmailRegisteredForEventTrimmed(email, eventId, F) ==
    IF email = Undefined
    THEN { [threw |-> FALSE, value |-> FALSE, calls |-> <<>>, errs |-> <<>>] }
    ELSE { [threw |-> FALSE,
            value |-> e = "ok" /\ \E r \in registrations :
                          /\ r.email = toLowerCase(trim(email))
                          /\ r.event_id = String(eventId),
            calls |-> <<"registrations.where.get">>, errs |-> <<e>>] : e \in F }

\* email.toLowerCase() raises a TypeError, caught, when email is undefined.
isEmailRegisteredForEvent(email, eventId, F) ==
    IF email = Undefined
    THEN { [threw |-> FALSE, value |-> FALSE, calls |-> <<>>, errs |-> <<>>] }
    ELSE { [threw |-> FALSE,
            value |-> e = "ok" /\ \E r \in registrations :
                          /\ r.email = toLowerCase(email)
                          /\ r.event_id = String(eventId),
            calls |-> <<"registrations.where.get">>, errs |-> <<e>>] : e \in F }

createRegistrationUnique(registrationData, F) ==
    LET doc == [name |-> trim(registrationData.name),
                email |-> toLowerCase(trim(registrationData.email)),
                event_id |-> String(registrationData.event_id)]
        freeIds == {i \in AutoIds : \A d \in registrations : d.id # i}
    IN
    IF \E d \in registrations : d.email = doc.email /\ d.event_id = doc.event_id
    THEN { [threw |-> TRUE, value |-> Null, registrations |-> registrations,
            calls |-> <<"registrations.add">>, errs |-> <<"ALREADY_EXISTS">>] }
    ELSE { [threw |-> FALSE,
            value |-> [id |-> i] @@ doc,
            registrations |-> registrations \cup {[id |-> i] @@ doc},
            calls |-> <<"registrations.add", "registrations.doc.get">>,
            errs |-> <<"ok", "ok">>] : i \in freeIds }

\* createRegistration storing the fields as they were passed.
createRegistrationAsPassed(registrationData, F) ==
    LET freeIds == {i \in AutoIds : \A d \in registrations : d.id # i}
        added == { [id |-> i,
                    name |-> registrationData.name,
                    email |-> registrationData.email,
                    event_id |-> registrationData.event_id] : i \in freeIds }
    IN
    { [threw |-> FALSE, value |-> d, registrations |-> registrations \cup {d},
       calls |-> <<"registrations.add", "registrations.doc.get">>,
       errs |-> <<"ok", "ok">>] : d \in added }

\* name.trim() and email.trim() raise a TypeError, rethrown, when undefined.
createRegistration(registrationData, F) ==
    LET valid == Undefined \notin {registrationData.name, registrationData.email}
        freeIds == {i \in AutoIds : \A d \in registrations : d.id # i}
        added == IF valid /\ "ok" \in F
                 THEN { [id |-> i,
                         name |-> trim(registrationData.name),
                         email |-> toLowerCase(trim(registrationData.email)),
                         event_id |-> String(registrationData.event_id)] : i \in freeIds }
                 ELSE {}
    IN
    IF ~valid
    THEN { [threw |-> TRUE, value |-> Null, registrations |-> registrations,
            calls |-> <<>>, errs |-> <<>>] }
    ELSE
    { [threw |-> TRUE, value |-> Null, registrations |-> registrations,
       calls |-> <<"registrations.add">>, errs |-> <<e>>] : e \in F \ {"ok"} }
    \cup
    { [threw |-> o[2] # "ok",
       value |-> IF o[2] = "ok" THEN o[1] ELSE Null,
       registrations |-> registrations \cup {o[1]},
       calls |-> <<"registrations.add", "registrations.doc.get">>,
       errs |-> <<"ok", o[2]>>] : o \in added \X F }

\* Array.prototype.sort with the comparator (a, b) => parseInt(b.id) - parseInt(a.id).
\* A NaN comparator result counts as 0.
compareIdDesc(a, b) ==
    LET x == parseInt(b.id)
        y == parseInt(a.id)
    IN  IF x = NaN \/ y = NaN THEN 0 ELSE x[1] - y[1]

\* Whether the comparator is a consistent one on these elements (the
\* relations "compares equal", "less" and "greater" are transitive).
ConsistentComparator(S) ==
    \A a \in S, b \in S, c \in S :
        /\ compareIdDesc(a, b) = 0 /\ compareIdDesc(b, c) = 0 => compareIdDesc(a, c) = 0
        /\ compareIdDesc(a, b) < 0 /\ compareIdDesc(b, c) < 0 => compareIdDesc(a, c) < 0
        /\ compareIdDesc(a, b) > 0 /\ compareIdDesc(b, c) > 0 => compareIdDesc(a, c) > 0

IndexOf(seq, x) == CHOOSE i \in 1..Len(seq) : seq[i] = x

ArrayOrders(seq) ==
    { p \in [1..Len(seq) -> Range(seq)] : \A x \in Range(seq) : \E i \in 1..Len(seq) : p[i] = x }

\* The arrays sort may leave: with a consistent comparator the stable sort;
\* otherwise the order is implementation-defined, any permutation.
sortByIdDesc(seq) ==
    IF ConsistentComparator(Range(seq))
    THEN { p \in ArrayOrders(seq) :
             \A i \in 1..Len(p), j \in 1..Len(p) : i < j =>
                 \/ compareIdDesc(p[i], p[j]) < 0
                 \/ /\ compareIdDesc(p[i], p[j]) = 0
                    /\ IndexOf(seq, p[i]) < IndexOf(seq, p[j]) }
    ELSE ArrayOrders(seq)

joinRowFirstEvent(reg, evs) ==
    IF evs # <<>>
    THEN [id |-> reg.id, name |-> reg.name, email |-> reg.email,
          event_title |-> evs[1].title, event_date |-> evs[1].date,
          event_venue |-> evs[1].venue]
    ELSE Null

\* The joined row of a registration, or null when eventsMap has no entry
\* for its event_id.  (eventsMap is a plain object keyed by event id; no
\* event_id here names an inherited Object property.)
joinRow(reg, evs) ==
    IF \E ev \in Range(evs) : ev.id = reg.event_id
    THEN LET event == CHOOSE ev \in Range(evs) : ev.id = reg.event_id
         IN  [id |-> reg.id, name |-> reg.name, email |-> reg.email,
              event_title |-> event.title, event_date |-> event.date,
              event_venue |-> event.venue]
    ELSE Null

NotNull(x) == x # Null

getRegistrationsWithEvents(F) ==
    { [threw |-> FALSE, value |-> o[3], calls |-> o[1].calls \o o[2].calls,
       errs |-> o[1].errs \o o[2].errs] :
        o \in UNION { UNION { { <<r, e, p>> :
                 p \in sortByIdDesc(SelectSeq([i \in 1..Len(r.value) |->
                                                 joinRow(r.value[i], e.value)], NotNull)) } :
               e \in getAllEvents(F) } : r \in getAllRegistrations(F) } }

----------------------------------------------------------------------------
(* The query shim: dbInterface.query                                       *)

\* INSERT INTO events (title, date, venue) VALUES (?, ?, ?)
SqlInsertEvent ==
    <<
      "I", "N", "S", "E", "R", "T", " ", "I", "N", "T", "O", " ", "e", "v",
      "e", "n", "t", "s", " ", "(", "t", "i", "t", "l", "e", ",", " ", "d",
      "a", "t", "e", ",", " ", "v", "e", "n", "u", "e", ")", " ", "V", "A",
      "L", "U", "E", "S", " ", "(", "?", ",", " ", "?", ",", " ", "?", ")" >>

\* SELECT * FROM events WHERE id = ?
SqlSelectEventById ==
    <<
      "S", "E", "L", "E", "C", "T", " ", "*", " ", "F", "R", "O", "M", " ",
      "e", "v", "e", "n", "t", "s", " ", "W", "H", "E", "R", "E", " ", "i",
      "d", " ", "=", " ", "?" >>

\* SELECT id FROM events WHERE id = ?
SqlSelectEventId ==
    <<
      "S", "E", "L", "E", "C", "T", " ", "i", "d", " ", "F", "R", "O", "M",
      " ", "e", "v", "e", "n", "t", "s", " ", "W", "H", "E", "R", "E", " ",
      "i", "d", " ", "=", " ", "?" >>

\* SELECT * FROM events ORDER BY date ASC
SqlListEvents ==
    <<
      "S", "E", "L", "E", "C", "T", " ", "*", " ", "F", "R", "O", "M", " ",
      "e", "v", "e", "n", "t", "s", " ", "O", "R", "D", "E", "R", " ", "B",
      "Y", " ", "d", "a", "t", "e", " ", "A", "S", "C" >>

\* SELECT id FROM registrations WHERE email = ? AND event_id = ?
SqlExistsRegistration ==
    <<
      "S", "E", "L", "E", "C", "T", " ", "i", "d", " ", "F", "R", "O", "M",
      " ", "r", "e", "g", "i", "s", "t", "r", "a", "t", "i", "o", "n", "s",
      " ", "W", "H", "E", "R", "E", " ", "e", "m", "a", "i", "l", " ", "=",
      " ", "?", " ", "A", "N", "D", " ", "e", "v", "e", "n", "t", "_", "i",
      "d", " ", "=", " ", "?" >>

\* INSERT INTO registrations (name, email, event_id) VALUES (?, ?, ?)
SqlInsertRegistration ==
    <<
      "I", "N", "S", "E", "R", "T", " ", "I", "N", "T", "O", " ", "r", "e",
      "g", "i", "s", "t", "r", "a", "t", "i", "o", "n", "s", " ", "(", "n",
      "a", "m", "e", ",", " ", "e", "m", "a", "i", "l", ",", " ", "e", "v",
      "e", "n", "t", "_", "i", "d", ")", " ", "V", "A", "L", "U", "E", "S",
      " ", "(", "?", ",", " ", "?", ",", " ", "?", ")" >>

\* the admin panel query, with its line breaks and indentation
SqlJoin ==
    <<
      "\n", " ", " ", " ", " ", " ", " ", " ", " ", " ", " ", " ", " ", "S",
      "E", "L", "E", "C", "T", " ", "\n", " ", " ", " ", " ", " ", " ", " ",
      " ", " ", " ", " ", " ", " ", " ", " ", " ", "r", ".", "i", "d", ",",
      "\n", " ", " ", " ", " ", " ", " ", " ", " ", " ", " ", " ", " ", " ",
      " ", " ", " ", "r", ".", "n", "a", "m", "e", ",", "\n", " ", " ", " ",
      " ", " ", " ", " ", " ", " ", " ", " ", " ", " ", " ", " ", " ", "r",
      ".", "e", "m", "a", "i", "l", ",", "\n", " ", " ", " ", " ", " ", " ",
      " ", " ", " ", " ", " ", " ", " ", " ", " ", " ", "e", ".", "t", "i",
      "t", "l", "e", " ", "a", "s", " ", "e", "v", "e", "n", "t", "_", "t",
      "i", "t", "l", "e", ",", "\n", " ", " ", " ", " ", " ", " ", " ", " ",
      " ", " ", " ", " ", " ", " ", " ", " ", "e", ".", "d", "a", "t", "e",
      " ", "a", "s", " ", "e", "v", "e", "n", "t", "_", "d", "a", "t", "e",
      ",", "\n", " ", " ", " ", " ", " ", " ", " ", " ", " ", " ", " ", " ",
      " ", " ", " ", " ", "e", ".", "v", "e", "n", "u", "e", " ", "a", "s",
      " ", "e", "v", "e", "n", "t", "_", "v", "e", "n", "u", "e", "\n", " ",
      " ", " ", " ", " ", " ", " ", " ", " ", " ", " ", " ", "F", "R", "O",
      "M", " ", "r", "e", "g", "i", "s", "t", "r", "a", "t", "i", "o", "n",
      "s", " ", "r", "\n", " ", " ", " ", " ", " ", " ", " ", " ", " ", " ",
      " ", " ", "I", "N", "N", "E", "R", " ", "J", "O", "I", "N", " ", "e",
      "v", "e", "n", "t", "s", " ", "e", " ", "O", "N", " ", "r", ".", "e",
      "v", "e", "n", "t", "_", "i", "d", " ", "=", " ", "e", ".", "i", "d",
      "\n", " ", " ", " ", " ", " ", " ", " ", " ", " ", " ", " ", " ", "O",
      "R", "D", "E", "R", " ", "B", "Y", " ", "r", ".", "i", "d", " ", "D",
      "E", "S", "C", "\n", " ", " ", " ", " ", " ", " ", " ", " " >>

\* DELETE FROM events WHERE id = ?
SqlDeleteEvent ==
    <<
      "D", "E", "L", "E", "T", "E", " ", "F", "R", "O", "M", " ", "e", "v",
      "e", "n", "t", "s", " ", "W", "H", "E", "R", "E", " ", "i", "d", " ",
      "=", " ", "?" >>

\* SELECT * FROM users
SqlSelectUsers ==
    <<
      "S", "E", "L", "E", "C", "T", " ", "*", " ", "F", "R", "O", "M", " ",
      "u", "s", "e", "r", "s" >>

\* A text that satisfies the tests for INSERT INTO EVENTS and for FROM EVENTS
\* without WHERE:
\* INSERT INTO events (title, date, venue) SELECT title, date, venue FROM events
SqlInsertEventSelect ==
    <<
      "I", "N", "S", "E", "R", "T", " ", "I", "N", "T", "O", " ", "e", "v",
      "e", "n", "t", "s", " ", "(", "t", "i", "t", "l", "e", ",", " ", "d",
      "a", "t", "e", ",", " ", "v", "e", "n", "u", "e", ")", " ", "S", "E",
      "L", "E", "C", "T", " ", "t", "i", "t", "l", "e", ",", " ", "d", "a",
      "t", "e", ",", " ", "v", "e", "n", "u", "e", " ", "F", "R", "O", "M",
      " ", "e", "v", "e", "n", "t", "s" >>

\* A text that satisfies the tests for FROM EVENTS with WHERE ID = ? and for
\* the existence check:
\* SELECT id FROM registrations WHERE email = ? AND event_id = ? AND event_id IN (SELECT id FROM events WHERE id = ?)
SqlExistsWithEvent ==
    <<
      "S", "E", "L", "E", "C", "T", " ", "i", "d", " ", "F", "R", "O", "M",
      " ", "r", "e", "g", "i", "s", "t", "r", "a", "t", "i", "o", "n", "s",
      " ", "W", "H", "E", "R", "E", " ", "e", "m", "a", "i", "l", " ", "=",
      " ", "?", " ", "A", "N", "D", " ", "e", "v", "e", "n", "t", "_", "i",
      "d", " ", "=", " ", "?", " ", "A", "N", "D", " ", "e", "v", "e", "n",
      "t", "_", "i", "d", " ", "I", "N", " ", "(", "S", "E", "L", "E", "C",
      "T", " ", "i", "d", " ", "F", "R", "O", "M", " ", "e", "v", "e", "n",
      "t", "s", " ", "W", "H", "E", "R", "E", " ", "i", "d", " ", "=", " ",
      "?", ")" >>

\* A text that satisfies the tests for FROM EVENTS without WHERE and for
\* INSERT INTO REGISTRATIONS:
\* INSERT INTO registrations (name, email, event_id) SELECT ?, ?, id FROM events
SqlInsertRegistrationSelect ==
    <<
      "I", "N", "S", "E", "R", "T", " ", "I", "N", "T", "O", " ", "r", "e",
      "g", "i", "s", "t", "r", "a", "t", "i", "o", "n", "s", " ", "(", "n",
      "a", "m", "e", ",", " ", "e", "m", "a", "i", "l", ",", " ", "e", "v",
      "e", "n", "t", "_", "i", "d", ")", " ", "S", "E", "L", "E", "C", "T",
      " ", "?", ",", " ", "?", ",", " ", "i", "d", " ", "F", "R", "O", "M",
      " ", "e", "v", "e", "n", "t", "s" >>

\* A text that satisfies the tests for FROM EVENTS without WHERE and for the
\* join:
\* SELECT r.id FROM registrations r INNER JOIN events e ON r.event_id = e.id UNION SELECT id FROM events
SqlJoinUnionEvents ==
    <<
      "S", "E", "L", "E", "C", "T", " ", "r", ".", "i", "d", " ", "F", "R",
      "O", "M", " ", "r", "e", "g", "i", "s", "t", "r", "a", "t", "i", "o",
      "n", "s", " ", "r", " ", "I", "N", "N", "E", "R", " ", "J", "O", "I",
      "N", " ", "e", "v", "e", "n", "t", "s", " ", "e", " ", "O", "N", " ",
      "r", ".", "e", "v", "e", "n", "t", "_", "i", "d", " ", "=", " ", "e",
      ".", "i", "d", " ", "U", "N", "I", "O", "N", " ", "S", "E", "L", "E",
      "C", "T", " ", "i", "d", " ", "F", "R", "O", "M", " ", "e", "v", "e",
      "n", "t", "s" >>

\* A text with FROM EVENTS, without WHERE and without SELECT:
\* DELETE FROM events
SqlDeleteAllEvents ==
    <<
      "D", "E", "L", "E", "T", "E", " ", "F", "R", "O", "M", " ", "e", "v",
      "e", "n", "t", "s" >>

\* select * from events where id=?
SqlTightWhere ==
    <<
      "s", "e", "l", "e", "c", "t", " ", "*", " ", "f", "r", "o", "m", " ",
      "e", "v", "e", "n", "t", "s", " ", "w", "h", "e", "r", "e", " ", "i",
      "d", "=", "?" >>

\* "INSERT INTO EVENTS"
PatInsertIntoEvents ==
    <<
      "I", "N", "S", "E", "R", "T", " ", "I", "N", "T", "O", " ", "E", "V",
      "E", "N", "T", "S" >>

\* "SELECT"
PatSelect ==
    <<"S", "E", "L", "E", "C", "T">>

\* "FROM EVENTS"
PatFromEvents ==
    <<"F", "R", "O", "M", " ", "E", "V", "E", "N", "T", "S">>

\* "WHERE ID = ?"
PatWhereId ==
    <<"W", "H", "E", "R", "E", " ", "I", "D", " ", "=", " ", "?">>

\* "SELECT ID FROM EVENTS WHERE ID = ?"
PatSelectIdFromEvents ==
    <<
      "S", "E", "L", "E", "C", "T", " ", "I", "D", " ", "F", "R", "O", "M",
      " ", "E", "V", "E", "N", "T", "S", " ", "W", "H", "E", "R", "E", " ",
      "I", "D", " ", "=", " ", "?" >>

\* "WHERE"
PatWhere ==
    <<"W", "H", "E", "R", "E">>

\* "SELECT ID FROM REGISTRATIONS WHERE EMAIL = ? AND EVENT_ID = ?"
PatSelectIdFromRegistrations ==
    <<
      "S", "E", "L", "E", "C", "T", " ", "I", "D", " ", "F", "R", "O", "M",
      " ", "R", "E", "G", "I", "S", "T", "R", "A", "T", "I", "O", "N", "S",
      " ", "W", "H", "E", "R", "E", " ", "E", "M", "A", "I", "L", " ", "=",
      " ", "?", " ", "A", "N", "D", " ", "E", "V", "E", "N", "T", "_", "I",
      "D", " ", "=", " ", "?" >>

\* "INSERT INTO REGISTRATIONS"
PatInsertIntoRegistrations ==
    <<
      "I", "N", "S", "E", "R", "T", " ", "I", "N", "T", "O", " ", "R", "E",
      "G", "I", "S", "T", "R", "A", "T", "I", "O", "N", "S" >>

\* "FROM REGISTRATIONS R"
PatFromRegistrationsR ==
    <<
      "F", "R", "O", "M", " ", "R", "E", "G", "I", "S", "T", "R", "A", "T",
      "I", "O", "N", "S", " ", "R" >>

\* "INNER JOIN EVENTS E"
PatInnerJoinEventsE ==
    <<
      "I", "N", "N", "E", "R", " ", "J", "O", "I", "N", " ", "E", "V", "E",
      "N", "T", "S", " ", "E" >>

\* sql.trim().toUpperCase().replace(/\s+/g, ' ')
normalise(sql) == CollapseSpaces(toUpperCase(trim(sql)))

\* params[i] of the JavaScript array (0-based), undefined past its end.
Param(params, i) == IF i + 1 <= Len(params) THEN params[i + 1] ELSE Undefined

\* [event] without the filter.
RowsOfUnfiltered(v) == << <<v>> >>

\* [[event].filter(e => e !== null)]
RowsOf(v) == << IF v = Null THEN <<>> ELSE <<v>> >>

\* query with the event list only for texts containing SELECT * FROM EVENTS.
branchSelectStarOnly(sqlUpper) ==
    IF includes(sqlUpper, PatInsertIntoEvents)
    THEN "insertEvent"
    ELSE IF /\ includes(sqlUpper, PatSelect)
            /\ includes(sqlUpper, PatFromEvents)
            /\ includes(sqlUpper, PatWhereId)
    THEN "selectEventById"
    ELSE IF /\ includes(sqlUpper, PatSelect \o <<" ", "*", " ">> \o PatFromEvents)
            /\ ~includes(sqlUpper, PatWhere)
    THEN "selectEvents"
    ELSE IF includes(sqlUpper, PatSelectIdFromRegistrations)
    THEN "existsRegistration"
    ELSE IF includes(sqlUpper, PatInsertIntoRegistrations)
    THEN "insertRegistration"
    ELSE IF /\ includes(sqlUpper, PatFromRegistrationsR)
            /\ includes(sqlUpper, PatInnerJoinEventsE)
    THEN "join"
    ELSE "unmatched"

\* query with the test for the event list made first.
branchListFirst(sqlUpper) ==
    IF /\ includes(sqlUpper, PatSelect)
       /\ includes(sqlUpper, PatFromEvents)
       /\ ~includes(sqlUpper, PatWhere)
    THEN "selectEvents"
    ELSE IF includes(sqlUpper, PatInsertIntoEvents)
    THEN "insertEvent"
    ELSE IF /\ includes(sqlUpper, PatSelect)
            /\ includes(sqlUpper, PatFromEvents)
            /\ includes(sqlUpper, PatWhereId)
    THEN "selectEventById"
    ELSE IF includes(sqlUpper, PatSelectIdFromRegistrations)
    THEN "existsRegistration"
    ELSE IF includes(sqlUpper, PatInsertIntoRegistrations)
    THEN "insertRegistration"
    ELSE IF /\ includes(sqlUpper, PatFromRegistrationsR)
            /\ includes(sqlUpper, PatInnerJoinEventsE)
    THEN "join"
    ELSE "unmatched"

\* The branch of query that handles a normalised text: the first of the
\* pattern tests, in the order the code makes them, that succeeds.
branch(sqlUpper) ==
    IF startsWith(sqlUpper, PatInsertIntoEvents) \/ includes(sqlUpper, PatInsertIntoEvents)
    THEN "insertEvent"
    ELSE IF /\ includes(sqlUpper, PatSelect)
            /\ includes(sqlUpper, PatFromEvents)
            /\ includes(sqlUpper, PatWhereId)
    THEN "selectEventById"
    ELSE IF includes(sqlUpper, PatSelectIdFromEvents)
    THEN "selectEventId"
    ELSE IF /\ includes(sqlUpper, PatSelect)
            /\ includes(sqlUpper, PatFromEvents)
            /\ ~includes(sqlUpper, PatWhere)
    THEN "selectEvents"
    ELSE IF includes(sqlUpper, PatSelectIdFromRegistrations)
    THEN "existsRegistration"
    ELSE IF includes(sqlUpper, PatInsertIntoRegistrations)
    THEN "insertRegistration"
    ELSE IF /\ includes(sqlUpper, PatFromRegistrationsR)
            /\ includes(sqlUpper, PatInnerJoinEventsE)
    THEN "join"
    ELSE "unmatched"

\* The texts the model passes to query, and the branch of each (computed
\* once from the text).
QueryTexts ==
    << SqlInsertEvent, SqlSelectEventById, SqlSelectEventId, SqlListEvents,
       SqlExistsRegistration, SqlInsertRegistration, SqlJoin,
       SqlDeleteEvent, SqlSelectUsers, SqlTightWhere,
       SqlInsertEventSelect, SqlExistsWithEvent, SqlInsertRegistrationSelect,
       SqlJoinUnionEvents, SqlDeleteAllEvents >>

BranchTable == [i \in 1..Len(QueryTexts) |-> branch(normalise(QueryTexts[i]))]

BranchOf(sql) == BranchTable[CHOOSE i \in 1..Len(QueryTexts) : QueryTexts[i] = sql]

unmatchedRaises == [threw |-> TRUE, result |-> Null, calls |-> <<>>, errs |-> <<>>]

\* What query does with a text no pattern matches: warn and return [[]].
unmatched == [threw |-> FALSE, result |-> << <<>> >>, calls |-> <<>>, errs |-> <<>>]

\* query(sql, params): the set of its possible outcomes.  threw: the call
\* raised; result: what it returned; events, registrations: the collections
\* afterwards; calls: the store calls made.
query(sql, params, F) ==
    LET b == BranchOf(sql)
        read(o, res) == [threw |-> o.threw, result |-> res, events |-> events,
                         registrations |-> registrations, calls |-> o.calls, errs |-> o.errs]
    IN
    CASE b = "insertEvent" ->
           { [threw |-> o.threw,
              result |-> IF o.threw THEN Null ELSE <<[insertId |-> o.value.id]>>,
              events |-> o.events, registrations |-> registrations,
              calls |-> o.calls, errs |-> o.errs] :
             o \in createEvent([title |-> Param(params, 0), date |-> Param(params, 1),
                                venue |-> Param(params, 2)], F) }
      [] b \in {"selectEventById", "selectEventId"} ->
           { read(o, RowsOf(o.value)) : o \in getEventById(Param(params, 0), F) }
      [] b = "selectEvents" ->
           { read(o, <<o.value>>) : o \in getAllEvents(F) }
      [] b = "existsRegistration" ->
           { read(o, IF o.value THEN << <<[id |-> 1]>> >> ELSE << <<>> >>) :
             o \in isEmailRegisteredForEvent(Param(params, 0), Param(params, 1), F) }
      [] b = "insertRegistration" ->
           { [threw |-> o.threw,
              result |-> IF o.threw THEN Null ELSE <<[insertId |-> o.value.id]>>,
              events |-> events, registrations |-> o.registrations,
              calls |-> o.calls, errs |-> o.errs] :
             o \in createRegistration([name |-> Param(params, 0), email |-> Param(params, 1),
                                       event_id |-> Param(params, 2)], F) }
      [] b = "join" ->
           { read(o, <<o.value>>) : o \in getRegistrationsWithEvents(F) }
      [] b = "unmatched" ->
           { [threw |-> unmatched.threw, result |-> unmatched.result, events |-> events,
              registrations |-> registrations, calls |-> unmatched.calls,
              errs |-> unmatched.errs] }

----------------------------------------------------------------------------
(* Inputs                                                                  *)

MaxRegs == 2

\* (title, date, venue) of the events created; dates are abbreviated to two
\* digits.
EventInputs ==
    { << <<"A", "I">>, <<"1", "0">>, <<"L", "a", "b">> >>,
      << <<"F", "e", "s", "t">>, <<"0", "5">>, <<"H", "a", "l", "l">> >> }

Names == { <<"A", "l">>, <<" ", "A", "l">> }
Emails ==
    { <<"a", "@", "b", ".", "c">>, <<"A", "@", "B", ".", "c">>,
      <<" ", "A", "@", "b", ".", "c">> }

\* The calls of query the model makes: each text with parameter lists of
\* the kind its call sites pass, and one insert that omits parameters.
QueryCalls ==
    { [sql |-> SqlInsertEvent, params |-> x] : x \in EventInputs }
    \cup { [sql |-> SqlInsertEvent, params |-> << <<"A", "I">> >>] }
    \cup { [sql |-> q, params |-> <<i>>] :
             q \in {SqlSelectEventById, SqlSelectEventId}, i \in EventAutoIds }
    \cup { [sql |-> q, params |-> << <<"1", "9">> >>] : q \in {SqlDeleteEvent, SqlTightWhere} }
    \cup { [sql |-> q, params |-> <<>>] :
             q \in {SqlListEvents, SqlJoin, SqlSelectUsers, SqlJoinUnionEvents,
                    SqlDeleteAllEvents} }
    \cup { [sql |-> SqlInsertEventSelect,
             params |-> << <<"A", "I">>, <<"1", "0">>, <<"L", "a", "b">> >>] }
    \cup { [sql |-> SqlExistsWithEvent,
             params |-> << <<"1", "9">>, <<"1", "9">>, <<"1", "9">> >>] }
    \cup { [sql |-> SqlInsertRegistrationSelect,
             params |-> << <<"A", "l">>, <<"a", "@", "b", ".", "c">> >>] }
    \cup { [sql |-> SqlExistsRegistration, params |-> <<m, i>>] :
             m \in Emails, i \in EventAutoIds }
    \cup { [sql |-> SqlInsertRegistration, params |-> <<n, m, i>>] :
             n \in Names, m \in Emails, i \in EventAutoIds }
    \cup { [sql |-> SqlInsertRegistration,
             params |-> << <<" ", "A", "l">>, <<" ", "A", "@", "b", ".", "c">>, Number19 >>] }

----------------------------------------------------------------------------
(* Spec: callers use the exported interface one call at a time, and the    *)
(* store answers every call.                                               *)

Idle == [op |-> "none"]

\* A session express-session has just created, or one that was destroyed:
\* neither idToken nor user is set.
NoSession == [idToken |-> Undefined, user |-> Undefined]

\* A browser that sends no idToken cookie.
NoCookies == [idToken |-> Undefined]

NoCalls == <<>>

Init ==
    /\ events = {}
    /\ registrations = {}
    /\ users = {}
    /\ regReq = NoCalls
    /\ userCall = NoCalls
    /\ last = Idle
    /\ inserted = <<>>
    /\ session = NoSession
    /\ cookies = NoCookies

\* db.query(c.sql, c.params)
QueryCall(c, F) ==
    \E o \in query(c.sql, c.params, F) :
        /\ Cardinality(o.registrations) <= MaxRegs
        /\ events' = o.events
        /\ registrations' = o.registrations
        /\ last' = [op |-> "query", sql |-> c.sql, params |-> c.params,
                    threw |-> o.threw, result |-> o.result, calls |-> o.calls, errs |-> o.errs]
        /\ inserted' = IF BranchOf(c.sql) = "insertEvent" /\ ~o.threw
                       THEN (o.result[1].insertId :> c.params) @@ inserted
                       ELSE inserted
        /\ UNCHANGED <<users, regReq, userCall, session, cookies>>

Query(F) == \E c \in QueryCalls : QueryCall(c, F)

\* db.deleteEvent(id)
DeleteEvent(F) ==
    \E id \in EventAutoIds : \E o \in deleteEvent(id, F) :
        /\ events' = o.events
        /\ last' = [op |-> "deleteEvent", id |-> id, threw |-> o.threw,
                    result |-> o.value, calls |-> o.calls, errs |-> o.errs,
                    removed |-> events \ o.events]
        /\ inserted' = IF o.threw THEN inserted
                       ELSE [i \in DOMAIN inserted \ {String(id)} |-> inserted[i]]
        /\ UNCHANGED <<registrations, users, regReq, userCall, session, cookies>>

\* db.getRegistrationsByEventId(eventId)
GetRegistrationsByEventId(F) ==
    \E id \in EventAutoIds : \E o \in getRegistrationsByEventId(id, F) :
        /\ last' = [op |-> "getRegistrationsByEventId", id |-> id, threw |-> o.threw,
                    result |-> o.value, calls |-> o.calls, errs |-> o.errs]
        /\ UNCHANGED <<events, registrations, users, regReq, userCall, inserted, session, cookies>>

Next ==
    \/ Query(StoreOk)
    \/ DeleteEvent(StoreOk)
    \/ GetRegistrationsByEventId(StoreOk)

Spec == Init /\ [][Next]_vars

\* The calls of query made against a store whose calls may fail: one
\* parameter list for each text.
FaultQueryCalls ==
    { c \in QueryCalls :
        \A i \in 1..Len(c.params) :
            c.params[i] \in { <<"A", "I">>, <<"1", "0">>, <<"L", "a", "b">>, <<"1", "9">>,
                              <<"A", "l">>, <<"A", "@", "B", ".", "c">> } }

\* SpecFaults: the same callers, and a store whose calls may fail.
NextFaults ==
    \/ \E c \in FaultQueryCalls : QueryCall(c, StoreAny)
    \/ DeleteEvent(StoreAny)
    \/ GetRegistrationsByEventId(StoreAny)

SpecFaults == Init /\ [][NextFaults]_vars

----------------------------------------------------------------------------
(* The routes of routes/registerRoutes.js.  A handler takes one step per   *)
(* call of the shim it awaits; the checks it makes before its first await  *)
(* belong to its first step.                                               *)

RegReqIds == {"r1", "r2"}

\* req.body of POST /register: valid forms, one with an empty name and one
\* whose email has no "@".
RegBodies ==
    { [name |-> <<" ", "A", "l">>, email |-> <<"a", "@", "b", ".", "c">>,
       event_id |-> <<"1", "9">>],
      [name |-> <<"A", "l">>, email |-> <<"A", "@", "B", ".", "c">>,
       event_id |-> <<"1", "9">>],
      [name |-> <<"A", "l">>, email |-> <<"a", "@", "b", ".", "c">>,
       event_id |-> <<"a", "1">>],
      [name |-> <<>>, email |-> <<"a", "@", "b", ".", "c">>,
       event_id |-> <<"1", "9">>],
      [name |-> <<"A", "l">>, email |-> <<"a", "b", ".", "c">>,
       event_id |-> <<"1", "9">>] }

\* !x for a form field
Falsy(x) == x = Undefined \/ x = <<>>

\* /^[^\s@]+@[^\s@]+\.[^\s@]+$/.test(s)
emailRegexTest(s) ==
    \E i \in 2..Len(s) : \E j \in (i + 2)..(Len(s) - 1) :
        /\ s[i] = "@"
        /\ s[j] = "."
        /\ \A k \in 1..Len(s) : k # i => s[k] # "@" /\ ~IsSpace(s[k])

IdleReq == [pc |-> "idle"]

MsgRequired == "All fields are required"
MsgInvalidEmail == "Invalid email format"
MsgEventNotFound == "Event not found"
MsgAlreadyRegistered == "You are already registered for this event"
MsgSuccess == "Registration successful!"
MsgFailed == "Registration failed. Please try again."

InitRoutes ==
    /\ events = {}
    /\ registrations = {}
    /\ users = {}
    /\ regReq = [r \in RegReqIds |-> IdleReq]
    /\ userCall = NoCalls
    /\ last = Idle
    /\ inserted = <<>>
    /\ session = NoSession
    /\ cookies = NoCookies

Redirect(r, body, step, message) ==
    [op |-> "POST /register", req |-> r, body |-> body, step |-> step,
     outcome |-> message]

RegStartNoLookup(r, serial, F) ==
    /\ regReq[r].pc = "idle"
    /\ serial => \A q \in RegReqIds : regReq[q].pc = "idle"
    /\ \E body \in RegBodies :
        IF Falsy(body.name) \/ Falsy(body.email) \/ Falsy(body.event_id)
        THEN /\ last' = Redirect(r, body, "validate", MsgRequired)
             /\ UNCHANGED regReq
        ELSE IF ~emailRegexTest(body.email)
        THEN /\ last' = Redirect(r, body, "validate", MsgInvalidEmail)
             /\ UNCHANGED regReq
        ELSE /\ last' = Redirect(r, body, "event lookup", "pending")
             /\ regReq' = [regReq EXCEPT ![r] = [pc |-> "checkDup", body |-> body]]
    /\ UNCHANGED <<events, registrations, users, userCall, inserted, session, cookies>>

\* POST /register up to the answer of the event lookup: the field and email
\* checks, then 'SELECT id FROM events WHERE id = ?'.  With serial, a
\* request starts only when no other is in flight.
RegStart(r, serial, F) ==
    /\ regReq[r].pc = "idle"
    /\ serial => \A q \in RegReqIds : regReq[q].pc = "idle"
    /\ \E body \in RegBodies :
        IF Falsy(body.name) \/ Falsy(body.email) \/ Falsy(body.event_id)
        THEN /\ last' = Redirect(r, body, "validate", MsgRequired)
             /\ UNCHANGED regReq
        ELSE IF ~emailRegexTest(body.email)
        THEN /\ last' = Redirect(r, body, "validate", MsgInvalidEmail)
             /\ UNCHANGED regReq
        ELSE \E o \in query(SqlSelectEventId, <<body.event_id>>, F) :
             IF o.threw
             THEN /\ last' = Redirect(r, body, "event lookup", MsgFailed)
                  /\ UNCHANGED regReq
             ELSE IF Len(o.result[1]) = 0
             THEN /\ last' = Redirect(r, body, "event lookup", MsgEventNotFound)
                  /\ UNCHANGED regReq
             ELSE /\ last' = Redirect(r, body, "event lookup", "pending")
                  /\ regReq' = [regReq EXCEPT ![r] = [pc |-> "checkDup", body |-> body]]
    /\ UNCHANGED <<events, registrations, users, userCall, inserted, session, cookies>>

RegCheckDupAlwaysInsert(r, F) ==
    /\ regReq[r].pc = "checkDup"
    /\ LET body == regReq[r].body IN
       \E o \in query(SqlExistsRegistration, <<body.email, body.event_id>>, F) :
         /\ last' = Redirect(r, body, "duplicate check", "pending")
                    @@ [existing |-> IF o.threw THEN Null ELSE o.result[1]]
         /\ regReq' = [regReq EXCEPT ![r].pc = "insert"]
    /\ UNCHANGED <<events, registrations, users, userCall, inserted, session, cookies>>

\* POST /register: the duplicate check,
\* 'SELECT id FROM registrations WHERE email = ? AND event_id = ?'.
RegCheckDup(r, F) ==
    /\ regReq[r].pc = "checkDup"
    /\ LET body == regReq[r].body IN
       \E o \in query(SqlExistsRegistration, <<body.email, body.event_id>>, F) :
         /\ IF o.threw
            THEN /\ last' = Redirect(r, body, "duplicate check", MsgFailed)
                           @@ [existing |-> Null]
                 /\ regReq' = [regReq EXCEPT ![r] = IdleReq]
            ELSE IF Len(o.result[1]) > 0
            THEN /\ last' = Redirect(r, body, "duplicate check", MsgAlreadyRegistered)
                           @@ [existing |-> o.result[1]]
                 /\ regReq' = [regReq EXCEPT ![r] = IdleReq]
            ELSE /\ last' = Redirect(r, body, "duplicate check", "pending")
                           @@ [existing |-> o.result[1]]
                 /\ regReq' = [regReq EXCEPT ![r].pc = "insert"]
    /\ UNCHANGED <<events, registrations, users, userCall, inserted, session, cookies>>

\* POST /register: 'INSERT INTO registrations ...' with the trimmed name and
\* email, and the final redirect.
RegInsert(r, F) ==
    /\ regReq[r].pc = "insert"
    /\ LET body == regReq[r].body IN
       \E o \in query(SqlInsertRegistration,
                      <<trim(body.name), trim(body.email), body.event_id>>, F) :
         /\ Cardinality(o.registrations) <= MaxRegs
         /\ registrations' = o.registrations
         /\ last' = Redirect(r, body, "insert", IF o.threw THEN MsgFailed ELSE MsgSuccess)
         /\ regReq' = [regReq EXCEPT ![r] = IdleReq]
    /\ UNCHANGED <<events, users, userCall, inserted, session, cookies>>

\* POST /admin/events: the handler after requireAdmin.
PostAdminEvents(F) ==
    \E body \in EventInputs :
        IF Falsy(body[1]) \/ Falsy(body[2]) \/ Falsy(body[3])
        THEN /\ last' = [op |-> "POST /admin/events", body |-> body, outcome |-> MsgRequired]
             /\ UNCHANGED <<events, inserted>>
        ELSE \E o \in query(SqlInsertEvent, <<trim(body[1]), body[2], trim(body[3])>>, F) :
             /\ events' = o.events
             /\ last' = [op |-> "POST /admin/events", body |-> body,
                         outcome |-> IF o.threw THEN "Failed to create event"
                                     ELSE "Event created successfully"]
             /\ inserted' = IF o.threw THEN inserted
                            ELSE (o.result[1].insertId :>
                                    <<trim(body[1]), body[2], trim(body[3])>>) @@ inserted
    /\ UNCHANGED <<registrations, users, regReq, userCall, session, cookies>>

\* POST /admin/events/:id/delete: the handler after requireAdmin.
PostAdminEventsDelete(F) ==
    \E eventId \in EventAutoIds : \E o \in deleteEvent(eventId, F) :
        /\ events' = o.events
        /\ last' = [op |-> "POST /admin/events/:id/delete", id |-> eventId,
                    outcome |-> IF o.threw THEN "Failed to delete event"
                                ELSE "Event deleted successfully"]
        /\ inserted' = IF o.threw THEN inserted
                       ELSE [i \in DOMAIN inserted \ {String(eventId)} |-> inserted[i]]
        /\ UNCHANGED <<registrations, users, regReq, userCall, session, cookies>>

\* GET /admin: the handler after requireAdmin.  It renders the rows of the
\* join (an array, so registrations || [] is the array itself), or the
\* error page when query raises.
GetAdmin(F) ==
    /\ \E o \in query(SqlJoin, <<>>, F) :
         last' = IF o.threw
                 THEN [op |-> "GET /admin", status |-> 500, registrations |-> <<>>]
                 ELSE [op |-> "GET /admin", status |-> 200,
                       registrations |-> o.result[1]]
    /\ UNCHANGED <<events, registrations, users, regReq, userCall, inserted, session, cookies>>

\* SpecSerial: the routes, with registration requests handled one at a time
\* and a store that answers every call.
NextSerial ==
    \/ PostAdminEvents(StoreOk)
    \/ PostAdminEventsDelete(StoreOk)
    \/ \E r \in RegReqIds : RegStart(r, TRUE, StoreOk)
    \/ \E r \in RegReqIds : RegCheckDup(r, StoreOk)
    \/ \E r \in RegReqIds : RegInsert(r, StoreOk)

SpecSerial == InitRoutes /\ [][NextSerial]_vars

\* SpecConc: the same routes with requests in flight together.
NextConc ==
    \/ PostAdminEvents(StoreOk)
    \/ PostAdminEventsDelete(StoreOk)
    \/ \E r \in RegReqIds : RegStart(r, FALSE, StoreOk)
    \/ \E r \in RegReqIds : RegCheckDup(r, StoreOk)
    \/ \E r \in RegReqIds : RegInsert(r, StoreOk)

SpecConc == InitRoutes /\ [][NextConc]_vars

\* SpecAdmin: SpecSerial with the admin panel.
NextAdmin ==
    \/ NextSerial
    \/ GetAdmin(StoreOk)

SpecAdmin == InitRoutes /\ [][NextAdmin]_vars

----------------------------------------------------------------------------
(* Users: getUserByUid and createUser of config/db.js, and the login route *)
(* of routes/authRoutes.js.  createUser takes one step per store call.     *)

RoleStudent == <<"s", "t", "u", "d", "e", "n", "t">>
RoleAdmin == <<"a", "d", "m", "i", "n">>

\* A role string a caller can pass that is neither of the two.
RoleGuest == <<"g", "u", "e", "s", "t">>

Uid1 == <<"u", "1">>
Uid2 == <<"u", "2">>
Email1 == <<"a", "@", "b", ".", "c">>
Email2 == <<"d", "@", "b", ".", "c">>

\* a || b
Or(a, b) == IF Falsy(a) THEN b ELSE a

getUserByUid(uid, F) ==
    { [threw |-> FALSE,
       value |-> IF e = "ok" THEN docToObject(users, uid) ELSE Null,
       calls |-> <<"users.doc.get">>, errs |-> <<e>>] : e \in F }

\* createUser without the early return: it writes whatever is stored.
foundExistingNever(existing) == FALSE

\* if (existing) in createUser
foundExisting(existing) == existing # Null

\* The userDoc createUser builds, with the document id docToObject adds.
userDoc(userData) ==
    [id |-> userData.uid,
     uid |-> userData.uid,
     email |-> userData.email,
     name |-> Or(userData.name, userData.email),
     role |-> Or(userData.role, RoleStudent)]

\* USERS_COLLECTION.doc(uid).set(userDoc) rejects an undefined field.
ValidUserDoc(doc) ==
    /\ doc.uid # Undefined
    /\ doc.email # Undefined
    /\ doc.name # Undefined
    /\ doc.role # Undefined

UserCallIds == {"c1", "c2"}

IdleCall == [pc |-> "idle"]

\* Arguments of direct calls of createUser.
UserDatas ==
    << [uid |-> Uid1, email |-> Email1, name |-> <<"A", "l">>, role |-> Undefined],
       [uid |-> Uid1, email |-> Email2, name |-> Undefined, role |-> RoleAdmin],
       [uid |-> Uid2, email |-> Email2, name |-> <<"B", "o">>, role |-> RoleStudent] >>

\* ID tokens the identity provider verifies, with the claims it decodes.
TokenClaims ==
    {<<"t", "1">>} :> [uid |-> Uid1, email |-> Email1, name |-> Undefined]
    @@ {<<"t", "2">>} :> [uid |-> Uid2, email |-> Undefined, name |-> <<"B", "o">>]

ValidTokens == UNION (DOMAIN TokenClaims)

verifyIdTokenAnyText(idToken) ==
    IF idToken \in ValidTokens
    THEN TokenClaims[CHOOSE ts \in DOMAIN TokenClaims : idToken \in ts]
    ELSE TokenClaims[{<<"t", "1">>}]

\* admin.auth().verifyIdToken(idToken): the decoded token, or null when it throws.
verifyIdToken(idToken) ==
    IF idToken \in ValidTokens
    THEN TokenClaims[CHOOSE ts \in DOMAIN TokenClaims : idToken \in ts]
    ELSE Null

\* req.body of POST /api/auth/login
LoginBodies ==
    << [idToken |-> <<"t", "1">>, userData |-> Undefined],
       [idToken |-> <<"t", "1">>,
        userData |-> [email |-> Email2, name |-> <<"A", "l">>, role |-> RoleAdmin]],
       [idToken |-> <<"t", "2">>, userData |-> Undefined],
       [idToken |-> <<"t", "2">>,
        userData |-> [email |-> Email2, name |-> Undefined, role |-> Undefined]],
       [idToken |-> <<"t", "2">>,
        userData |-> [email |-> Email2, name |-> Undefined, role |-> RoleGuest]],
       [idToken |-> <<"b", "a", "d">>, userData |-> Undefined],
       [idToken |-> Undefined, userData |-> Undefined] >>

\* userData?.field
Field(userData, f) == IF userData = Undefined THEN Undefined ELSE userData[f]

InitUsers ==
    /\ events = {}
    /\ registrations = {}
    /\ users = {}
    /\ regReq = NoCalls
    /\ userCall = [c \in UserCallIds |-> IdleCall]
    /\ last = Idle
    /\ inserted = <<>>
    /\ session = NoSession
    /\ cookies = NoCookies

CreateUserReturn(ud, threw, code, value) ==
    [op |-> "createUser", userData |-> ud, threw |-> threw, result |-> value,
     errs |-> <<code>>]

\* The answer of POST /api/auth/login and what it put in the session.
LoginAnswer(body, status, user) ==
    [op |-> "POST /api/auth/login", body |-> body, status |-> status,
     session |-> IF status = 200
                 THEN [idToken |-> body.idToken,
                       user |-> [uid |-> user.uid, email |-> user.email,
                                 name |-> user.name, role |-> user.role]]
                 ELSE Null]

\* What the caller of createUser does with its outcome: a direct caller
\* receives it; the login route stores the user in the session, or answers
\* 500 (database not enabled) or 401.
Returned(call, threw, code, value) ==
    IF call.kind = "createUser"
    THEN CreateUserReturn(call.userData, threw, code, value)
    ELSE LoginAnswer(call.body,
                     IF ~threw THEN 200 ELSE IF code = "NOT_FOUND" THEN 500 ELSE 401,
                     value)

SessionAfterAnyStatus(answer) ==
    IF answer.op = "POST /api/auth/login"
    THEN [session EXCEPT !.idToken = answer.body.idToken,
                         !.user = IF answer.status = 200 THEN answer.session.user ELSE @]
    ELSE session

\* req.session once the login route has answered: with 200, idToken and user
\* are assigned; with any other status, and for a direct caller of
\* createUser, the session is as it was.
SessionAfter(answer) ==
    IF answer.op = "POST /api/auth/login" /\ answer.status = 200
    THEN [session EXCEPT !.idToken = answer.session.idToken,
                         !.user = answer.session.user]
    ELSE session

\* A caller calls db.createUser(userData).  With serial, only when no other
\* call is in flight.
CreateUser(c, serial) ==
    /\ userCall[c].pc = "idle"
    /\ serial => \A q \in UserCallIds : userCall[q].pc = "idle"
    /\ \E i \in 1..Len(UserDatas) :
         LET ud == UserDatas[i] IN
         userCall' = [userCall EXCEPT ![c] =
                        [pc |-> "create", kind |-> "createUser", userData |-> ud]]
    /\ UNCHANGED <<events, registrations, users, regReq, last, inserted, session, cookies>>

\* POST /api/auth/login up to the answer of db.getUserByUid: the token
\* checks, the lookup, and for a known user the session and the answer.
Login(c, F) ==
    /\ userCall[c].pc = "idle"
    /\ \E i \in 1..Len(LoginBodies) :
        LET body == LoginBodies[i] IN
        IF Falsy(body.idToken)
        THEN /\ last' = LoginAnswer(body, 400, Null)
             /\ UNCHANGED <<userCall, session>>
        ELSE LET decodedToken == verifyIdToken(body.idToken) IN
             IF decodedToken = Null
             THEN /\ last' = LoginAnswer(body, 401, Null)
                  /\ UNCHANGED <<userCall, session>>
             ELSE \E o \in getUserByUid(decodedToken.uid, F) :
                  IF o.value # Null
                  THEN /\ last' = LoginAnswer(body, 200, o.value)
                       /\ session' = SessionAfter(last')
                       /\ UNCHANGED userCall
                  ELSE /\ UNCHANGED <<last, session>>
                       /\ userCall' = [userCall EXCEPT ![c] =
                            [pc |-> "create", kind |-> "login", body |-> body,
                             userData |->
                               [uid |-> decodedToken.uid,
                                email |-> Or(decodedToken.email, Field(body.userData, "email")),
                                name |-> Or(decodedToken.name,
                                            Or(Field(body.userData, "name"), decodedToken.email)),
                                role |-> Or(Field(body.userData, "role"), RoleStudent)]]]
    /\ UNCHANGED <<events, registrations, users, regReq, inserted, cookies>>

\* createUser: the lookup of an existing user, which is returned as it is.
CreateUserCheck(c, F) ==
    /\ userCall[c].pc = "create"
    /\ \E o \in getUserByUid(userCall[c].userData.uid, F) :
         IF foundExisting(o.value)
         THEN /\ last' = Returned(userCall[c], FALSE, "ok", o.value)
              /\ session' = SessionAfter(last')
              /\ userCall' = [userCall EXCEPT ![c] = IdleCall]
         ELSE /\ UNCHANGED <<last, session>>
              /\ userCall' = [userCall EXCEPT ![c].pc = "set"]
    /\ UNCHANGED <<events, registrations, users, regReq, inserted, cookies>>

\* createUser: USERS_COLLECTION.doc(uid).set(userDoc), which replaces the
\* document if there is one.
CreateUserSet(c, F) ==
    /\ userCall[c].pc = "set"
    /\ LET doc == userDoc(userCall[c].userData) IN
       \E e \in (IF ValidUserDoc(doc) THEN F ELSE {"INVALID_ARGUMENT"}) :
         IF e = "ok"
         THEN /\ users' = {d \in users : d.id # doc.id} \cup {doc}
              /\ userCall' = [userCall EXCEPT ![c].pc = "read"]
              /\ UNCHANGED last
         ELSE /\ last' = Returned(userCall[c], TRUE, e, Null)
              /\ userCall' = [userCall EXCEPT ![c] = IdleCall]
              /\ UNCHANGED users
    /\ UNCHANGED <<events, registrations, regReq, inserted, session, cookies>>

\* createUser: the read of the document just written, and the return.
CreateUserRead(c, F) ==
    /\ userCall[c].pc = "read"
    /\ \E e \in F :
         /\ last' = IF e = "ok"
                    THEN Returned(userCall[c], FALSE, e,
                                  docToObject(users, userCall[c].userData.uid))
                    ELSE Returned(userCall[c], TRUE, e, Null)
         /\ session' = SessionAfter(last')
         /\ userCall' = [userCall EXCEPT ![c] = IdleCall]
    /\ UNCHANGED <<events, registrations, users, regReq, inserted, cookies>>

\* SpecUsers: createUser called by one caller at a time, and a store that
\* answers every call.
NextUsers ==
    \/ \E c \in UserCallIds : CreateUser(c, TRUE)
    \/ \E c \in UserCallIds : CreateUserCheck(c, StoreOk)
    \/ \E c \in UserCallIds : CreateUserSet(c, StoreOk)
    \/ \E c \in UserCallIds : CreateUserRead(c, StoreOk)

SpecUsers == InitUsers /\ [][NextUsers]_vars

\* SpecLogin: login requests in flight together, and a store whose calls
\* may fail.
NextLogin ==
    \/ \E c \in UserCallIds : Login(c, StoreAny)
    \/ \E c \in UserCallIds : CreateUserCheck(c, StoreAny)
    \/ \E c \in UserCallIds : CreateUserSet(c, StoreAny)
    \/ \E c \in UserCallIds : CreateUserRead(c, StoreAny)

SpecLogin == InitUsers /\ [][NextLogin]_vars

\* updateUserRole(uid, role): update() of the role field, which fails with
\* not-found when there is no document, then getUserByUid; every error is
\* caught and null returned.
updateUserRole(uid, role, F) ==
    LET exists == \E d \in users : d.id = uid
        updated == { IF d.id = uid THEN [d EXCEPT !.role = role] ELSE d : d \in users }
    IN
    { [threw |-> FALSE, value |-> Null, users |-> users,
       calls |-> <<"users.doc.update">>, errs |-> <<e>>] :
         e \in IF exists THEN F \ {"ok"} ELSE (F \ {"ok"}) \cup {"NOT_FOUND"} }
    \cup
    { [threw |-> FALSE,
       value |-> IF e = "ok" THEN docToObject(updated, uid) ELSE Null,
       users |-> updated,
       calls |-> <<"users.doc.update", "users.doc.get">>, errs |-> <<"ok", e>>] :
         e \in IF exists /\ "ok" \in F THEN F ELSE {} }

\* db.updateUserRole(uid, role)
UpdateUserRole(F) ==
    \E uid \in {Uid1, Uid2}, role \in {RoleStudent, RoleAdmin, RoleGuest} :
      \E o \in updateUserRole(uid, role, F) :
        /\ users' = o.users
        /\ last' = [op |-> "updateUserRole", uid |-> uid, role |-> role,
                    threw |-> o.threw, result |-> o.value, calls |-> o.calls,
                    errs |-> o.errs]
        /\ UNCHANGED <<events, registrations, regReq, userCall, inserted, session, cookies>>

\* SpecAccounts: login requests in flight together, calls of
\* updateUserRole, and a store that answers every call.
NextAccounts ==
    \/ \E c \in UserCallIds : Login(c, StoreOk)
    \/ \E c \in UserCallIds : CreateUserCheck(c, StoreOk)
    \/ \E c \in UserCallIds : CreateUserSet(c, StoreOk)
    \/ \E c \in UserCallIds : CreateUserRead(c, StoreOk)
    \/ UpdateUserRole(StoreOk)

SpecAccounts == InitUsers /\ [][NextAccounts]_vars

\* db.getUserByUid(uid)
GetUserByUid(F) ==
    \E uid \in {Uid1, Uid2} : \E o \in getUserByUid(uid, F) :
        /\ last' = [op |-> "getUserByUid", uid |-> uid, threw |-> o.threw,
                    result |-> o.value, calls |-> o.calls, errs |-> o.errs]
        /\ UNCHANGED <<events, registrations, users, regReq, userCall, inserted, session, cookies>>

\* The calls of query that create, read and list events.
EventQueryCalls ==
    { c \in FaultQueryCalls : c.sql \in {SqlInsertEvent, SqlSelectEventById, SqlListEvents} }

\* SpecStore: the operations on events and on users called one at a time,
\* and a store whose calls may fail.
NextStore ==
    \/ \E c \in EventQueryCalls : QueryCall(c, StoreAny)
    \/ GetUserByUid(StoreAny)
    \/ \E c \in UserCallIds : CreateUser(c, TRUE)
    \/ \E c \in UserCallIds : CreateUserCheck(c, StoreAny)
    \/ \E c \in UserCallIds : CreateUserSet(c, StoreAny)
    \/ \E c \in UserCallIds : CreateUserRead(c, StoreAny)

SpecStore == InitUsers /\ [][NextStore]_vars

----------------------------------------------------------------------------
(* The middleware of config/auth.js, the routes it protects and the logout *)
(* routes.  One browser makes the requests: session is its req.session and *)
(* cookies the cookies it sends.  A protected request takes one step for   *)
(* the middleware and one for its handler; the browser waits for the       *)
(* answer of one before it sends the next.                                 *)

AuthReqIds == {"p1"}

verifyTokenDecodesAll(idToken) == { TokenClaims[{<<"t", "1">>}] }

\* verifyToken(idToken): the decoded token, or null when it throws
\* 'Invalid token'.  The identity provider also rejects a token it once
\* verified, when the token has expired.
verifyToken(idToken) == { verifyIdToken(idToken), Null }

getUserRoleFailOpen(uid, F) ==
    { [role |-> IF o.value = Null
                THEN (IF o.errs = <<"ok">> THEN RoleStudent ELSE RoleAdmin)
                ELSE o.value.role,
       errs |-> o.errs] : o \in getUserByUid(uid, F) }

getUserRoleFromSession(uid, F) ==
    { [role |-> IF session.user # Undefined THEN session.user.role
                ELSE IF o.value = Null THEN RoleStudent ELSE o.value.role,
       errs |-> o.errs] : o \in getUserByUid(uid, F) }

\* getUserRole(uid): the role of the stored user, 'student' when there is
\* none or the lookup fails.
getUserRole(uid, F) ==
    { [role |-> IF o.threw \/ o.value = Null THEN RoleStudent ELSE o.value.role,
       errs |-> o.errs] : o \in getUserByUid(uid, F) }

\* The routes behind requireAdmin, requireStudent and requireAuth.
ProtectedRoutes ==
    { [route |-> "GET /admin", guard |-> "requireAdmin"],
      [route |-> "GET /admin/events", guard |-> "requireAdmin"],
      [route |-> "POST /admin/events", guard |-> "requireAdmin"],
      [route |-> "POST /admin/events/:id/delete", guard |-> "requireAdmin"],
      [route |-> "GET /register/:eventId", guard |-> "requireStudent"],
      [route |-> "GET /profile", guard |-> "requireAuth"] }

AdmitsAnyRole(guard, role) == TRUE

\* The role checks requireAdmin and requireStudent make in the callback they
\* hand to requireAuth; requireAuth alone makes none.
Admits(guard, role) ==
    CASE guard = "requireAdmin" -> role = RoleAdmin
      [] guard = "requireStudent" -> ~(role # RoleStudent /\ role # RoleAdmin)
      [] OTHER -> TRUE

LoginPlease == "/login?message=Please login to continue&type=warning"
LoginExpired == "/login?message=Session expired. Please login again&type=danger"

\* Tokens a browser can hold in its idToken cookie.
CookieTokens == { <<"t", "1">>, <<"b", "a", "d">> }

\* req.body of the POST /admin/events requests the browser sends.
AdminEventInputs == { << <<"A", "I">>, <<"1", "0">>, <<"L", "a", "b">> >> }

InitAuth ==
    /\ events = {}
    /\ registrations = {}
    /\ users = {}
    /\ regReq = [r \in AuthReqIds |-> IdleReq]
    /\ userCall = [c \in UserCallIds |-> IdleCall]
    /\ last = Idle
    /\ inserted = <<>>
    /\ session = NoSession
    /\ cookies = NoCookies

\* The browser stores an ID token in its idToken cookie.
BrowserCookie ==
    /\ \E t \in CookieTokens : cookies' = [cookies EXCEPT !.idToken = t]
    /\ UNCHANGED <<events, registrations, users, regReq, userCall, last, inserted, session>>

\* What the middleware of a protected route decided, and the role in the
\* session the request came with.
Decision(r, rt, outcome, location, role, errs) ==
    [op |-> rt.route, guard |-> rt.guard, req |-> r, step |-> "auth",
     outcome |-> outcome, location |-> location, role |-> role, errs |-> errs,
     sessionRole |-> IF session.user = Undefined THEN Undefined ELSE session.user.role]

\* requireAuth, and the role check of requireAdmin or requireStudent, for a
\* request to a protected route.
Authenticate(r, F) ==
    /\ regReq[r].pc = "idle"
    /\ \E rt \in ProtectedRoutes :
        LET idToken == Or(session.idToken, cookies.idToken) IN
        IF Falsy(idToken)
        THEN /\ last' = Decision(r, rt, "redirect", LoginPlease, Undefined, <<>>)
             /\ UNCHANGED <<regReq, session, cookies>>
        ELSE \E decodedToken \in verifyToken(idToken) :
             IF decodedToken = Null
             THEN /\ session' = NoSession
                  /\ cookies' = [cookies EXCEPT !.idToken = Undefined]
                  /\ last' = Decision(r, rt, "redirect", LoginExpired, Undefined, <<>>)
                  /\ UNCHANGED regReq
             ELSE \E g \in getUserRole(decodedToken.uid, F) :
                  LET user == [uid |-> decodedToken.uid,
                               email |-> decodedToken.email,
                               name |-> Or(decodedToken.name, decodedToken.email),
                               role |-> g.role]
                  IN
                  /\ session' = [session EXCEPT !.user = user]
                  /\ UNCHANGED cookies
                  /\ IF Admits(rt.guard, g.role)
                     THEN /\ last' = Decision(r, rt, "next", Undefined, g.role, g.errs)
                          /\ regReq' = [regReq EXCEPT ![r] =
                                          [pc |-> "handler", route |-> rt.route, user |-> user]]
                     ELSE /\ last' = Decision(r, rt, "403", Undefined, g.role, g.errs)
                          /\ UNCHANGED regReq
    /\ UNCHANGED <<events, registrations, users, userCall, inserted>>

\* What the handler of a protected route answered.
Answer(r, outcome) ==
    [op |-> regReq[r].route, req |-> r, step |-> "handler", outcome |-> outcome,
     user |-> regReq[r].user]

\* The handler of a protected route, which runs when the middleware called
\* next().
Handler(r, F) ==
    /\ regReq[r].pc = "handler"
    /\ regReq' = [regReq EXCEPT ![r] = IdleReq]
    /\ CASE regReq[r].route = "POST /admin/events" ->
            \E body \in AdminEventInputs :
              \E o \in query(SqlInsertEvent, <<trim(body[1]), body[2], trim(body[3])>>, F) :
                /\ events' = o.events
                /\ last' = Answer(r, IF o.threw THEN "Failed to create event"
                                     ELSE "Event created successfully")
                /\ inserted' = IF o.threw THEN inserted
                               ELSE (o.result[1].insertId :>
                                       <<trim(body[1]), body[2], trim(body[3])>>) @@ inserted
         [] regReq[r].route = "POST /admin/events/:id/delete" ->
            \E eventId \in EventAutoIds : \E o \in deleteEvent(eventId, F) :
                /\ events' = o.events
                /\ last' = Answer(r, IF o.threw THEN "Failed to delete event"
                                     ELSE "Event deleted successfully")
                /\ inserted' = IF o.threw THEN inserted
                               ELSE [i \in DOMAIN inserted \ {String(eventId)} |-> inserted[i]]
         [] regReq[r].route = "GET /admin" ->
            /\ \E o \in query(SqlJoin, <<>>, F) :
                 last' = Answer(r, IF o.threw THEN "error" ELSE "admin")
            /\ UNCHANGED <<events, inserted>>
         [] regReq[r].route = "GET /admin/events" ->
            /\ \E o \in query(SqlListEvents, <<>>, F) :
                 last' = Answer(r, IF o.threw THEN "error" ELSE "admin-events")
            /\ UNCHANGED <<events, inserted>>
         [] regReq[r].route = "GET /register/:eventId" ->
            /\ \E eventId \in EventAutoIds :
                 \E o \in query(SqlSelectEventById, <<eventId>>, F) :
                   last' = Answer(r, IF o.threw THEN "error"
                                    ELSE IF Len(o.result[1]) = 0 THEN MsgEventNotFound
                                    ELSE "register")
            /\ UNCHANGED <<events, inserted>>
         [] regReq[r].route = "GET /profile" ->
            /\ \E o \in getUserByUid(regReq[r].user.uid, F) :
                 last' = Answer(r, "profile")
            /\ UNCHANGED <<events, inserted>>
    /\ UNCHANGED <<registrations, users, userCall, session, cookies>>

\* POST /api/auth/logout and GET /logout: the session is destroyed and the
\* connect.sid cookie cleared; the answer is recorded with the cookies the
\* browser keeps.  The memory store the server is configured with destroys
\* a session without error.
Logout ==
    /\ \E op \in {"POST /api/auth/logout", "GET /logout"} :
         last' = [op |-> op,
                  outcome |-> IF op = "GET /logout"
                              THEN "/login?message=Logged out successfully&type=success"
                              ELSE "success",
                  cookies |-> cookies]
    /\ session' = NoSession
    /\ UNCHANGED <<events, registrations, users, regReq, userCall, inserted, cookies>>

\* SpecAuth: one browser that logs in, sends requests to the protected
\* routes and logs out; the user lookup of the middleware may fail, every
\* other store call is answered.
NextAuth ==
    \/ Login("c1", StoreOk)
    \/ CreateUserCheck("c1", StoreOk)
    \/ CreateUserSet("c1", StoreOk)
    \/ CreateUserRead("c1", StoreOk)
    \/ BrowserCookie
    \/ \E r \in AuthReqIds : Authenticate(r, StoreAny)
    \/ \E r \in AuthReqIds : Handler(r, StoreOk)
    \/ Logout

SpecAuth == InitAuth /\ [][NextAuth]_vars

\* SpecRoles: one browser that logs in and sends requests to the protected
\* routes while roles are changed, and a store that answers every call.
NextRoles ==
    \/ Login("c1", StoreOk)
    \/ CreateUserCheck("c1", StoreOk)
    \/ CreateUserSet("c1", StoreOk)
    \/ CreateUserRead("c1", StoreOk)
    \/ UpdateUserRole(StoreOk)
    \/ \E r \in AuthReqIds : Authenticate(r, StoreOk)
    \/ \E r \in AuthReqIds : Handler(r, StoreOk)

SpecRoles == InitAuth /\ [][NextRoles]_vars

----------------------------------------------------------------------------
(* Properties of Spec                                                      *)

IsQuery(l, sql) == l.op = "query" /\ l.sql = sql

SeqIsSet(seq, S) == Len(seq) = Cardinality(S) /\ Range(seq) = S

\* C3: deleteEvent(id) removes the event document with that id and nothing
\* else, the registrations collection is unchanged by it, and
\* getRegistrationsByEventId(id) returns every stored registration whose
\* event_id is id, whether or not the event still exists.
C3_DeleteKeepsRegistrations ==
    [][ /\ last'.op = "deleteEvent" =>
             /\ registrations' = registrations
             /\ users' = users
             /\ events' = {e \in events : e.id # last'.id}
        /\ last'.op = "getRegistrationsByEventId" =>
             SeqIsSet(last'.result, {r \in registrations' : r.event_id = last'.id})
      ]_vars

\* An event that had registrations was deleted, and the registrations remain.
C3_Witness ==
    /\ last.op = "deleteEvent"
    /\ last.removed # {}
    /\ \E r \in registrations : r.event_id = last.id

\* C4: reading an event by the insertId an insert returned, with no delete
\* of that event in between, yields exactly one row, with that id and the
\* inserted title, date and venue.
C4_RoundTrip ==
    (IsQuery(last, SqlSelectEventById) /\ last.params[1] \in DOMAIN inserted) =>
        /\ ~last.threw
        /\ last.result = << << [id |-> last.params[1],
                                title |-> inserted[last.params[1]][1],
                                date |-> inserted[last.params[1]][2],
                                venue |-> inserted[last.params[1]][3]] >> >>

C4_Witness ==
    /\ IsQuery(last, SqlSelectEventById)
    /\ last.params[1] \in DOMAIN inserted
    /\ Cardinality(events) = 2

\* C5: the list-all-events query returns exactly the stored events, each
\* once, in non-decreasing order of date.
C5_ListByDate ==
    IsQuery(last, SqlListEvents) =>
        /\ ~last.threw
        /\ Len(last.result) = 1
        /\ SeqIsSet(last.result[1], events)
        /\ \A i \in 1..Len(last.result[1]), j \in 1..Len(last.result[1]) :
               i < j => ~StrLess(last.result[1][j].date, last.result[1][i].date)

\* Two events listed by date against the order of their document ids.
C5_Witness ==
    /\ IsQuery(last, SqlListEvents)
    /\ Len(last.result[1]) = 2
    /\ StrLess(last.result[1][1].date, last.result[1][2].date)
    /\ StrLess(last.result[1][2].id, last.result[1][1].id)

\* C6: the join result has exactly one row for each stored registration
\* whose event is stored, carrying the registration's id, name and email and
\* that event's title, date and venue, and no other row.
C6_JoinRows ==
    IsQuery(last, SqlJoin) =>
        LET rows == last.result[1] IN
        /\ \A r \in registrations : \A e \in events : e.id = r.event_id =>
               /\ Cardinality({i \in 1..Len(rows) : rows[i].id = r.id}) = 1
               /\ [id |-> r.id, name |-> r.name, email |-> r.email,
                   event_title |-> e.title, event_date |-> e.date,
                   event_venue |-> e.venue] \in Range(rows)
        /\ \A i \in 1..Len(rows) : \E r \in registrations :
               /\ r.id = rows[i].id
               /\ \E e \in events : e.id = r.event_id

\* A join that returned one registration and dropped another, whose event
\* is not stored.
C6_Witness ==
    /\ IsQuery(last, SqlJoin)
    /\ Len(last.result[1]) = 1
    /\ Cardinality(registrations) = 2

\* C7: the rows of the join result are in descending numeric order of the
\* registration id: every id is a number, and of two rows the one with the
\* larger number comes first.
C7_NumericIdDescending ==
    IsQuery(last, SqlJoin) =>
        \A i \in 1..Len(last.result[1]), j \in 1..Len(last.result[1]) : i < j =>
            /\ parseInt(last.result[1][i].id) # NaN
            /\ parseInt(last.result[1][j].id) # NaN
            /\ parseInt(last.result[1][i].id)[1] >= parseInt(last.result[1][j].id)[1]

\* The texts none of whose pattern tests succeeds.
Recognised(u) ==
    \/ includes(u, PatInsertIntoEvents)
    \/ includes(u, PatSelect) /\ includes(u, PatFromEvents) /\ includes(u, PatWhereId)
    \/ includes(u, PatSelect) /\ includes(u, PatFromEvents) /\ ~includes(u, PatWhere)
    \/ includes(u, PatSelectIdFromRegistrations)
    \/ includes(u, PatInsertIntoRegistrations)
    \/ includes(u, PatFromRegistrationsR) /\ includes(u, PatInnerJoinEventsE)

UnrecognisedTexts ==
    { QueryTexts[i] : i \in {k \in 1..Len(QueryTexts) : ~Recognised(normalise(QueryTexts[k]))} }

\* C8: query with a text that matches no pattern returns [[]], raises
\* nothing, makes no store call and leaves the three collections unchanged.
C8_UnmatchedIsEmpty ==
    [][ (last'.op = "query" /\ last'.sql \in UnrecognisedTexts) =>
            /\ ~last'.threw
            /\ last'.result = << <<>> >>
            /\ last'.calls = <<>>
            /\ UNCHANGED <<events, registrations, users>>
      ]_vars

C8_Witness ==
    /\ last.op = "query"
    /\ last.sql \in UnrecognisedTexts
    /\ events # {}
    /\ registrations # {}

----------------------------------------------------------------------------
(* Properties of the routes                                                *)

SamePair(d, body) ==
    /\ d.event_id = body.event_id
    /\ toLowerCase(d.email) = toLowerCase(body.email)

NoDuplicateRegistration ==
    \A d \in registrations, e \in registrations :
        (d.event_id = e.event_id /\ toLowerCase(d.email) = toLowerCase(e.email)) => d = e

\* C1: with registration requests handled one at a time, once a registration
\* for (email, event_id) is stored, the duplicate check of every later
\* request with that event_id and an email equal up to letter case returns a
\* row, the request is rejected and stores nothing; no two registrations
\* share such a pair.
C1_SecondRegistrationRejected ==
    /\ []NoDuplicateRegistration
    /\ [][ \A r \in RegReqIds :
             ( /\ regReq[r].pc = "checkDup"
               /\ regReq'[r].pc # "checkDup"
               /\ \E d \in registrations : SamePair(d, regReq[r].body) ) =>
                 /\ last'.existing # <<>>
                 /\ last'.outcome = MsgAlreadyRegistered
                 /\ regReq'[r].pc = "idle"
                 /\ registrations' = registrations
         ]_vars

\* A request rejected as a duplicate whose email differs in letter case from
\* the stored one.
C1_Witness ==
    /\ last.op = "POST /register"
    /\ last.outcome = MsgAlreadyRegistered
    /\ \E d \in registrations : SamePair(d, last.body) /\ d.email # last.body.email

\* C2: the insert of a request that passed the duplicate check adds its
\* registration and succeeds whatever the collection holds by then, so two
\* requests in flight together can store the same (email, event_id) twice.
C2_InsertAfterCheckIsUnconditional ==
    [][ \A r \in RegReqIds :
          (regReq[r].pc = "insert" /\ regReq'[r].pc = "idle") =>
              /\ last'.outcome = MsgSuccess
              /\ Cardinality(registrations') = Cardinality(registrations) + 1
              /\ \E d \in registrations' \ registrations : SamePair(d, regReq[r].body)
      ]_vars

\* Two stored registrations for the same (email, event_id).
C2_Witness == ~NoDuplicateRegistration

----------------------------------------------------------------------------
(* Properties of createUser                                                *)

UserDocsKept == \A d \in users : d \in users'

\* C9: a createUser call made after another for the same uid returns the
\* record the first one stored, whatever data it passes; the record is not
\* changed and the collection holds one document for the uid.
C9_CreateUserIdempotent ==
    [][ /\ UserDocsKept
        /\ \A c \in UserCallIds :
             (userCall[c].pc # "idle" /\ userCall'[c].pc = "idle") =>
                 /\ ~last'.threw
                 /\ last'.result = docToObject(users, userCall[c].userData.uid)
                 /\ Cardinality({d \in users' : d.uid = userCall[c].userData.uid}) = 1
      ]_vars

\* A call that passed other data than the stored record holds and was
\* given the stored record.
C9_Witness ==
    /\ last.op = "createUser"
    /\ ~last.threw
    /\ last.result \in users
    /\ last.result.email # last.userData.email
    /\ last.result.role # Or(last.userData.role, RoleStudent)

\* C10: once a user document exists, no step of createUser changes it, with
\* logins for the same uid in flight together and with store reads that
\* fail.
C10_CreateUserNeverOverwrites == [][UserDocsKept]_vars

----------------------------------------------------------------------------
(* Properties of the dispatch of query                                     *)

\* The six patterns, numbered in the order of the dispatch.
Matches(n, u) ==
    CASE n = 1 -> includes(u, PatInsertIntoEvents)
      [] n = 2 -> includes(u, PatSelect) /\ includes(u, PatFromEvents) /\ includes(u, PatWhereId)
      [] n = 3 -> includes(u, PatSelect) /\ includes(u, PatFromEvents) /\ ~includes(u, PatWhere)
      [] n = 4 -> includes(u, PatSelectIdFromRegistrations)
      [] n = 5 -> includes(u, PatInsertIntoRegistrations)
      [] n = 6 -> includes(u, PatFromRegistrationsR) /\ includes(u, PatInnerJoinEventsE)

PatternNumbers == {1, 2, 3, 4, 5, 6}

\* The patterns each text of the model satisfies (computed once).
MatchTable ==
    [i \in 1..Len(QueryTexts) |->
        {n \in PatternNumbers : Matches(n, normalise(QueryTexts[i]))}]

MatchesOf(sql) == MatchTable[CHOOSE i \in 1..Len(QueryTexts) : QueryTexts[i] = sql]

\* The store calls the operation of each pattern can make.
CallGroups(n) ==
    CASE n = 1 -> { <<"events.add">>, <<"events.add", "events.doc.get">> }
      [] n = 2 -> { <<"events.doc.get">> }
      [] n = 3 -> { <<"events.orderBy.get">> }
      [] n = 4 -> { <<"registrations.where.get">> }
      [] n = 5 -> { <<"registrations.add">>, <<"registrations.add", "registrations.doc.get">> }
      [] n = 6 -> { <<"registrations.get", "events.orderBy.get">> }

Lowest(S) == CHOOSE n \in S : \A m \in S : n <= m

ContainsTable ==
    [i \in 1..Len(QueryTexts) |->
        LET u == normalise(QueryTexts[i]) IN
        [select |-> includes(u, PatSelect),
         fromEvents |-> includes(u, PatFromEvents),
         where |-> includes(u, PatWhere),
         insertIntoEvents |-> includes(u, PatInsertIntoEvents)]]

ContainsOf(sql) == ContainsTable[CHOOSE i \in 1..Len(QueryTexts) : QueryTexts[i] = sql]

\* The call recorded in l listed all events: it read the collection in date
\* order and returned that list as the one element of its result.
ListedAllEvents(l) ==
    /\ ~l.threw
    /\ l.calls = <<"events.orderBy.get">>
    /\ l.result = <<DocsByDate(events)>>

\* C12 as stated: every text with FROM EVENTS and without WHERE (and
\* without INSERT INTO EVENTS) lists all events.
C12_FromEventsWithoutWhereLists ==
    [][ (/\ last'.op = "query"
         /\ ContainsOf(last'.sql).fromEvents
         /\ ~ContainsOf(last'.sql).where
         /\ ~ContainsOf(last'.sql).insertIntoEvents) => ListedAllEvents(last') ]_vars

\* C12 amended: every text with SELECT and FROM EVENTS and without WHERE
\* (and without INSERT INTO EVENTS) lists all events, whatever else it
\* contains.
C12_SelectFromEventsWithoutWhereLists ==
    [][ (/\ last'.op = "query"
         /\ ContainsOf(last'.sql).select
         /\ ContainsOf(last'.sql).fromEvents
         /\ ~ContainsOf(last'.sql).where
         /\ ~ContainsOf(last'.sql).insertIntoEvents) => ListedAllEvents(last') ]_vars

\* A text that is also a join of registrations returned the two stored
\* events.
C12_Witness ==
    /\ last.op = "query"
    /\ last.sql = SqlJoinUnionEvents
    /\ ListedAllEvents(last)
    /\ Len(last.result[1]) = 2

----------------------------------------------------------------------------
(* Properties of the existence check                                       *)

FoundRows == << <<[id |-> 1]>> >>
NoRows == << <<>> >>

\* Some stored registration has this email, lower-cased, and this event id
\* as a string.
StoredFor(email, event_id) ==
    \E r \in registrations :
        r.email = toLowerCase(email) /\ r.event_id = String(event_id)

\* C13: the existence check with parameters (email, event_id) returns
\* [[{id: 1}]] when a stored registration has the lower-cased email and the
\* event id as a string, and [[]] otherwise.
C13_ExistenceCheck ==
    [][ (last'.op = "query" /\ last'.sql = SqlExistsRegistration) =>
          /\ ~last'.threw
          /\ last'.result = IF StoredFor(last'.params[1], last'.params[2])
                            THEN FoundRows ELSE NoRows ]_vars

\* The check found a registration for an email passed in upper case.
C13_Witness ==
    /\ last.op = "query"
    /\ last.sql = SqlExistsRegistration
    /\ last.result = FoundRows
    /\ last.params[1] # toLowerCase(last.params[1])

----------------------------------------------------------------------------
(* Properties of the shape of results                                      *)

\* A sequence of rows: no element is null or undefined.
IsRowList(rows) ==
    /\ DOMAIN rows = 1..Len(rows)
    /\ \A i \in 1..Len(rows) : rows[i] # Null /\ rows[i] # Undefined

\* The text is not dispatched to one of the two inserts.
NonInsertText(sql) ==
    LET ms == MatchesOf(sql) IN ms = {} \/ Lowest(ms) \notin {1, 5}

ReadByIdText(sql) ==
    LET ms == MatchesOf(sql) IN ms # {} /\ Lowest(ms) = 2

\* C14: the result of query for a text that is not an insert is a sequence
\* of one element, which is a sequence of rows; for read-event-by-id it
\* holds the stored event with that id, or nothing when there is none.
C14_DoubleWrapped ==
    [][ (last'.op = "query" /\ NonInsertText(last'.sql)) =>
          /\ ~last'.threw
          /\ Len(last'.result) = 1
          /\ IsRowList(last'.result[1])
          /\ ReadByIdText(last'.sql) =>
               LET found == {e \in events : e.id = String(last'.params[1])} IN
               IF found = {}
               THEN last'.result[1] = <<>>
               ELSE Len(last'.result[1]) = 1 /\ last'.result[1][1] \in found ]_vars

\* A read by id of an event that is not stored, while another one is,
\* returned one empty row list.
C14_Witness ==
    /\ last.op = "query"
    /\ last.sql = SqlSelectEventById
    /\ last.result = NoRows
    /\ events # {}

----------------------------------------------------------------------------
(* Properties of the handling of store errors                              *)

\* A store call of the operation recorded in l failed with an error other
\* than not-found.
StoreFailed(l) ==
    /\ "errs" \in DOMAIN l
    /\ \E i \in 1..Len(l.errs) : l.errs[i] \notin {"ok", "NOT_FOUND"}

\* C15: an operation during which the store fails with an error other than
\* not-found fails: it does not return an empty list, null or false.
C15_StoreErrorsPropagate ==
    [][ StoreFailed(last') => last'.threw ]_vars

\* The last store call of the operation recorded in l had the outcome
\* not-found.
StoreNotFound(l) ==
    /\ "errs" \in DOMAIN l
    /\ l.errs # <<>>
    /\ l.errs[Len(l.errs)] = "NOT_FOUND"

\* C16 as stated: no operation surfaces a not-found outcome as an error.
C16_NotFoundNeverRaised ==
    [][ StoreNotFound(last') => ~last'.threw ]_vars

\* The operation recorded in l is createEvent (called by the insert of
\* query) or createUser.
IsCreate(l) == l.op = "createUser" \/ (l.op = "query" /\ l.sql = SqlInsertEvent)

\* C16 amended: the lookups getEventById, getAllEvents and getUserByUid turn
\* a not-found outcome into no row, no event or null and do not raise;
\* createEvent and createUser raise on a not-found outcome of their write
\* or of the read that follows it.
C16_NotFoundLookupsOnly ==
    [][ StoreNotFound(last') =>
          IF IsCreate(last')
          THEN last'.threw
          ELSE /\ ~last'.threw
               /\ last'.op = "query" => last'.result = NoRows
               /\ last'.op = "getUserByUid" => last'.result = Null ]_vars

\* A read by id of a stored event met not-found and returned no row.
C16_Witness ==
    /\ last.op = "query"
    /\ last.sql = SqlSelectEventById
    /\ StoreNotFound(last)
    /\ ~last.threw
    /\ \E e \in events : e.id = last.params[1]

----------------------------------------------------------------------------
(* Properties of the admin panel                                           *)

\* C17: the list GET /admin renders holds every stored registration.
C17_AdminShowsAllRegistrations ==
    [][ (last'.op = "GET /admin" /\ last'.status = 200) =>
          \A r \in registrations' :
              \E i \in 1..Len(last'.registrations) : last'.registrations[i].id = r.id ]_vars

----------------------------------------------------------------------------
(* Properties of the stored users                                          *)

RolesEnumerated == \A u \in users : u.role \in {RoleStudent, RoleAdmin}

\* C18: every stored user's role is "student" or "admin", and a user that a
\* login without a role in userData creates has role "student".
C18_RoleIsStudentOrAdmin ==
    /\ []RolesEnumerated
    /\ [][ \A c \in UserCallIds :
             (/\ userCall[c].pc = "set"
              /\ userCall[c].kind = "login"
              /\ Falsy(Field(userCall[c].body.userData, "role"))) =>
                 \A d \in users' \ users : d.role = RoleStudent ]_vars

----------------------------------------------------------------------------
(* Properties of the stored registrations                                  *)

\* C19: every stored registration has a lower-case email without leading or
\* trailing whitespace, a name without leading or trailing whitespace, and
\* a string as event_id.
C19_RegistrationNormalised ==
    \A r \in registrations :
        /\ IsString(r.email)
        /\ r.email = toLowerCase(r.email)
        /\ r.email = trim(r.email)
        /\ IsString(r.name)
        /\ r.name = trim(r.name)
        /\ IsString(r.event_id)

\* An insert with a padded name, a padded upper-case email and a number as
\* event_id has stored a registration.
C19_Witness ==
    /\ last.op = "query"
    /\ last.sql = SqlInsertRegistration
    /\ ~last.threw
    /\ last.params[1] # trim(last.params[1])
    /\ last.params[2] # toLowerCase(trim(last.params[2]))
    /\ ~IsString(last.params[3])
    /\ \E r \in registrations : r.id = last.result[1].insertId

----------------------------------------------------------------------------
(* Properties of the stored events                                         *)

EventIdsUnique == \A d, e \in events : d.id = e.id => d = e

\* C20: no two stored events share an id; a step leaves every stored event
\* as it is or removes it, and leaves every stored registration as it is.
C20_EventsImmutable ==
    /\ []EventIdsUnique
    /\ [][ /\ \A e \in events : e \in events' \/ \A d \in events' : d.id # e.id
           /\ \A r \in registrations : r \in registrations' ]_vars

\* An event insert has run while another event and a registration were
\* stored.
C20_Witness ==
    /\ last.op = "query"
    /\ last.sql = SqlInsertEvent
    /\ ~last.threw
    /\ Cardinality(events) = 2
    /\ registrations # {}

----------------------------------------------------------------------------
(* Properties of POST /register                                            *)

FormAccepted(body) ==
    /\ ~Falsy(body.name) /\ ~Falsy(body.email) /\ ~Falsy(body.event_id)
    /\ emailRegexTest(body.email)

EventStored(eventId) == \E e \in events : e.id = eventId

\* C26: POST /register goes on to the duplicate check only with a complete
\* form, a well-formed email and a stored event, and on to the insert only
\* when the duplicate check returned no row; a request that fails one of the
\* checks is answered with a redirect and leaves the registrations as they
\* are; the registrations change only by the insert of such a request, which
\* adds exactly one.
C26_RegistrationOnlyAfterChecks ==
    [][ /\ \A r \in RegReqIds :
             /\ (regReq[r].pc = "idle" /\ regReq'[r].pc = "checkDup") =>
                    /\ FormAccepted(regReq'[r].body)
                    /\ EventStored(regReq'[r].body.event_id)
             /\ (regReq[r].pc = "checkDup" /\ regReq'[r].pc = "insert") =>
                    last'.existing = <<>>
             /\ (regReq[r].pc = "insert" /\ regReq'[r].pc = "idle") =>
                    /\ last'.outcome = MsgSuccess
                    /\ Cardinality(registrations') = Cardinality(registrations) + 1
        /\ registrations' # registrations =>
             \E r \in RegReqIds : regReq[r].pc = "insert" /\ regReq'[r].pc = "idle"
        /\ ( /\ last'.op = "POST /register"
             /\ last' # last
             /\ last'.step \in {"validate", "event lookup"}
             /\ ~(FormAccepted(last'.body) /\ EventStored(last'.body.event_id)) ) =>
                 /\ last'.outcome \in {MsgRequired, MsgInvalidEmail, MsgEventNotFound}
                 /\ regReq' = regReq
                 /\ registrations' = registrations
        /\ ( /\ last'.op = "POST /register"
             /\ last' # last
             /\ last'.step = "duplicate check"
             /\ last'.existing # <<>> ) =>
                 /\ last'.outcome = MsgAlreadyRegistered
                 /\ regReq'[last'.req].pc = "idle"
                 /\ registrations' = registrations
      ]_vars

\* A request whose insert has just stored its registration.
C26_Witness ==
    /\ last.op = "POST /register"
    /\ last.outcome = MsgSuccess
    /\ \E d \in registrations : SamePair(d, last.body)

\* C27: every registration is stored by the insert of a request for its
\* event_id, and the event lookup of that request found the event in the
\* store; the request keeps its form from the lookup to the insert.  The
\* event may be deleted between the lookup and the insert.
C27_InsertOnlyAfterEventFound ==
    [][ /\ \A r \in RegReqIds :
             /\ (regReq[r].pc = "idle" /\ regReq'[r].pc # "idle") =>
                    /\ regReq'[r].pc = "checkDup"
                    /\ EventStored(regReq'[r].body.event_id)
             /\ (regReq[r].pc # "idle" /\ regReq'[r].pc # "idle") =>
                    regReq'[r].body = regReq[r].body
        /\ \A d \in registrations' \ registrations :
             \E r \in RegReqIds :
                /\ regReq[r].pc = "insert"
                /\ regReq'[r].pc = "idle"
                /\ d.event_id = regReq[r].body.event_id
      ]_vars

\* A registration just stored for an event that was deleted after the
\* request looked it up.
C27_Witness ==
    /\ last.op = "POST /register"
    /\ last.outcome = MsgSuccess
    /\ ~EventStored(last.body.event_id)
    /\ \E d \in registrations : d.event_id = last.body.event_id

\* C27 as stated: the insert of POST /register stores a registration only
\* for an event that is in the store when the insert is made.
C27_InsertOnlyForStoredEvent ==
    [][ \A r \in RegReqIds :
          (regReq[r].pc = "insert" /\ registrations' # registrations) =>
              EventStored(regReq[r].body.event_id)
      ]_vars

----------------------------------------------------------------------------
(* Properties of the login route                                           *)

\* The uid the identity provider vouches for when it is shown idToken.
VerifiedFor(idToken, uid) ==
    /\ idToken # Undefined
    /\ \E ts \in DOMAIN TokenClaims : idToken \in ts /\ TokenClaims[ts].uid = uid

IsLoginAnswer(l) == l.op = "POST /api/auth/login"

\* C21: a user document appears only by the write of a login request whose
\* ID token the identity provider verified for that uid; a login request
\* without a token or with a token that fails verification is answered 400
\* or 401 and starts no user creation, and the users change only by such a
\* write; no step removes a user document.
C21_UserOnlyAfterVerifiedLogin ==
    /\ [](IsLoginAnswer(last) =>
            (last.status \in {400, 401}
               \/ \E uid \in {Uid1, Uid2} : VerifiedFor(last.body.idToken, uid)))
    /\ [][
        /\ \A d \in users : \E n \in users' : n.id = d.id
        /\ \A n \in users' :
             (\A d \in users : d.id # n.id) =>
                 \E c \in UserCallIds :
                    /\ userCall[c].pc = "set"
                    /\ userCall[c].kind = "login"
                    /\ n.id = n.uid
                    /\ VerifiedFor(userCall[c].body.idToken, n.uid)
        /\ \A c \in UserCallIds :
             (userCall[c].pc = "idle" /\ userCall'[c].pc # "idle") =>
                 \E uid \in {Uid1, Uid2} :
                    /\ VerifiedFor(userCall'[c].body.idToken, uid)
                    /\ userCall'[c].userData.uid = uid
        /\ users' # users => \E c \in UserCallIds : userCall[c].pc = "set"
      ]_vars

\* A login that was answered 200 for a user document it found or created.
C21_Witness ==
    /\ IsLoginAnswer(last)
    /\ last.status = 200
    /\ \E d \in users : d.uid = last.session.user.uid
                          /\ VerifiedFor(last.body.idToken, d.uid)

\* x === y for values that are text or undefined
SameValue(x, y) == IF x = Undefined THEN y = Undefined ELSE y # Undefined /\ x = y

UserFields == {"uid", "email", "name", "role"}

\* Two values of session.user with the same uid, email, name and role.
SameUser(a, b) ==
    IF a = Undefined THEN b = Undefined
    ELSE b # Undefined /\ \A f \in UserFields : SameValue(a[f], b[f])

SameSession(a, b) == SameValue(a.idToken, b.idToken) /\ SameUser(a.user, b.user)

\* C25: the login route changes the session only with its 200 answer, and
\* then session.idToken is the token of the request, which the identity
\* provider verified for the uid of session.user, and session.user has the
\* uid, email, name and role of that uid's stored user document; an answer
\* 400, 401 or 500 leaves the session as it was.
C25_SessionOnlyAfterLogin ==
    [][ /\ ~SameSession(session, session') =>
             /\ IsLoginAnswer(last')
             /\ last'.status = 200
             /\ SameValue(session'.idToken, last'.body.idToken)
             /\ session'.user # Undefined
             /\ VerifiedFor(session'.idToken, session'.user.uid)
             /\ \E d \in users' : /\ d.id = session'.user.uid
                                   /\ SameUser(session'.user, [f \in UserFields |-> d[f]])
        /\ (IsLoginAnswer(last') /\ last'.status # 200) => SameSession(session, session')
        /\ \A c \in UserCallIds :
             ( /\ userCall[c].pc # "idle"
               /\ userCall[c].kind = "login"
               /\ userCall'[c].pc = "idle" ) =>
                 /\ IsLoginAnswer(last')
                 /\ last'.status \in {200, 401, 500}
                 /\ last'.status = 200 =>
                      /\ SameValue(session'.idToken, userCall[c].body.idToken)
                      /\ \E d \in users' : SameUser(session'.user, [f \in UserFields |-> d[f]])
      ]_vars

\* A session written by a login after an earlier login was refused.
C25_Witness ==
    /\ IsLoginAnswer(last)
    /\ last.status = 200
    /\ session.idToken # Undefined
    /\ \E d \in users : SameUser(session.user, [f \in UserFields |-> d[f]])

\* C28: a stored user's role becomes "admin", and the role of an existing
\* user changes, only by updateUserRole, whatever the login requests carry.
C28_LoginCannotGrantAdmin ==
    [][ \A n \in users' :
          ( \/ n.role = RoleAdmin /\ \A d \in users : d.id = n.id => d.role # RoleAdmin
            \/ \E d \in users : d.id = n.id /\ d.role # n.role ) =>
              /\ last'.op = "updateUserRole"
              /\ \A c \in UserCallIds : userCall'[c].pc = userCall[c].pc
      ]_vars

----------------------------------------------------------------------------
(* Properties of the middleware and of logout                              *)

\* The ID token a request carries: the session's, else the cookie's.
TokenOf == IF session.idToken = Undefined THEN cookies.idToken ELSE session.idToken

\* The uid the identity provider vouches for when shown the request's token.
VerifiedUids == { uid \in {Uid1, Uid2} : VerifiedFor(TokenOf, uid) }

\* The role the store holds for uid, none when there is no user document.
StoredRoles(uid) == { d.role : d \in { u \in users : u.id = uid } }

GuardOf(route) == (CHOOSE rt \in ProtectedRoutes : rt.route = route).guard

AdminRoutes == { rt.route : rt \in { x \in ProtectedRoutes : x.guard = "requireAdmin" } }

\* This step is the middleware of request r.
AuthStep(r) ==
    /\ regReq[r].pc = "idle"
    /\ "step" \in DOMAIN last'
    /\ last'.step = "auth"
    /\ last'.req = r
    /\ \A c \in UserCallIds : userCall'[c].pc = userCall[c].pc
    /\ users' = users
    /\ SameValue(cookies'.idToken, cookies.idToken) \/ cookies'.idToken = Undefined

\* The middleware of request r has just called next().
Admitted(r) == regReq[r].pc = "idle" /\ regReq'[r].pc = "handler"

\* C22: the handler of an admin-only route runs only for a request whose ID
\* token verifies and for whose uid the store holds role "admin" when the
\* middleware reads it; the middleware answers every other request to such
\* a route with 403 or a redirect to /login; events are created and deleted
\* only by the handlers of admitted requests; requireStudent admits a
\* verified request exactly when the role read is "student" or "admin".
C22_AdminHandlersNeedAdminRole ==
    [][ /\ \A r \in AuthReqIds :
             /\ Admitted(r) =>
                   /\ regReq'[r].user.uid \in VerifiedUids
                   /\ regReq'[r].route \in AdminRoutes =>
                         /\ StoredRoles(regReq'[r].user.uid) = {RoleAdmin}
                         /\ last'.role = RoleAdmin
                   /\ GuardOf(regReq'[r].route) = "requireStudent" =>
                         regReq'[r].user.role \in {RoleStudent, RoleAdmin}
             /\ (AuthStep(r) /\ ~Admitted(r)) =>
                   /\ last'.outcome \in {"403", "redirect"}
                   /\ last'.outcome = "redirect" =>
                         last'.location \in {LoginPlease, LoginExpired}
                   /\ UNCHANGED <<events, regReq>>
             /\ (AuthStep(r) /\ last'.guard = "requireStudent"
                             /\ last'.outcome # "redirect") =>
                   (Admitted(r) <=> last'.role \in {RoleStudent, RoleAdmin})
        /\ events' # events =>
             \E r \in AuthReqIds :
                /\ regReq[r].pc = "handler"
                /\ regReq[r].route \in {"POST /admin/events", "POST /admin/events/:id/delete"}
                /\ regReq[r].user.role = RoleAdmin
      ]_vars

\* The handler of POST /admin/events has run for an administrator.
C22_Witness ==
    /\ "step" \in DOMAIN last
    /\ last.step = "handler"
    /\ last.op = "POST /admin/events"
    /\ last.user.role = RoleAdmin
    /\ events # {}

\* C23: requireAuth calls next() only for a request whose ID token, from the
\* session or the cookie, verifies.  A request with no token is redirected
\* to /login and the session and cookies stay as they are; a request whose
\* token fails verification is redirected to /login, the session is
\* destroyed and the idToken cookie cleared; in both cases the handler does
\* not run.
C23_NoNextWithoutValidToken ==
    [][ \A r \in AuthReqIds :
          /\ Admitted(r) => VerifiedUids # {}
          /\ (AuthStep(r) /\ TokenOf = Undefined) =>
                /\ last'.outcome = "redirect"
                /\ last'.location = LoginPlease
                /\ SameSession(session, session')
                /\ SameValue(cookies.idToken, cookies'.idToken)
                /\ ~Admitted(r)
          /\ (AuthStep(r) /\ TokenOf # Undefined
                          /\ (VerifiedUids = {} \/ (last'.outcome = "redirect"
                                                     /\ last'.location = LoginExpired))) =>
                /\ last'.outcome = "redirect"
                /\ last'.location = LoginExpired
                /\ SameSession(session', NoSession)
                /\ cookies'.idToken = Undefined
                /\ ~Admitted(r)
      ]_vars

\* A request with a cookie token that failed verification: redirected, the
\* session destroyed and the cookie cleared.
C23_Witness ==
    /\ "step" \in DOMAIN last
    /\ last.step = "auth"
    /\ last.outcome = "redirect"
    /\ last.location = LoginExpired
    /\ last.sessionRole # Undefined
    /\ SameSession(session, NoSession)
    /\ cookies.idToken = Undefined

\* C24: getUserRole returns "student" for a uid without a user document and
\* whenever the lookup fails; a request to an admin-only route whose role
\* lookup failed is answered 403.
C24_GetUserRoleFailsClosed ==
    /\ [](\A uid \in {Uid1, Uid2} : \A g \in getUserRole(uid, StoreAny) :
            (g.errs # <<"ok">> \/ StoredRoles(uid) = {}) => g.role = RoleStudent)
    /\ [][ \A r \in AuthReqIds :
             (AuthStep(r) /\ last'.outcome # "redirect" /\ last'.errs # <<"ok">>) =>
                /\ last'.role = RoleStudent
                /\ session'.user.role = RoleStudent
                /\ last'.guard = "requireAdmin" => (last'.outcome = "403" /\ ~Admitted(r))
         ]_vars

\* An administrator's request to an admin-only route refused because the
\* role lookup failed.
C24_Witness ==
    /\ "step" \in DOMAIN last
    /\ last.step = "auth"
    /\ last.guard = "requireAdmin"
    /\ last.outcome = "403"
    /\ last.errs # <<"ok">>
    /\ session.user # Undefined
    /\ StoredRoles(session.user.uid) = {RoleAdmin}

\* C29: the middleware of every request with a verified token puts the role
\* the store holds for the uid at that moment ("student" without a user
\* document) into session.user, whatever role the session held; when that
\* role is not "admin" a request to an admin-only route is answered 403 and
\* its handler does not run.
C29_RoleChangeTakesEffect ==
    [][ \A r \in AuthReqIds :
          (AuthStep(r) /\ last'.outcome # "redirect") =>
              \E uid \in VerifiedUids :
                 /\ session'.user.uid = uid
                 /\ StoredRoles(uid) \in {{session'.user.role}, {}}
                 /\ StoredRoles(uid) = {} => session'.user.role = RoleStudent
                 /\ (last'.guard = "requireAdmin" /\ StoredRoles(uid) # {RoleAdmin}) =>
                       (last'.outcome = "403" /\ ~Admitted(r))
      ]_vars

\* A request to an admin-only route refused for a user whose session held
\* role "admin" and whose stored role is "student".
C29_Witness ==
    /\ "step" \in DOMAIN last
    /\ last.step = "auth"
    /\ last.guard = "requireAdmin"
    /\ last.outcome = "403"
    /\ last.sessionRole = RoleAdmin
    /\ session.user.role = RoleStudent
    /\ session.idToken # Undefined

IsLogoutAnswer(l) == l.op \in {"POST /api/auth/logout", "GET /logout"}

\* C30: a request to a protected route that the browser sends after a logout,
\* with the cookies it had at the logout and before any other answer, is
\* redirected to /login and its handler does not run.
C30_ProtectedAfterLogoutRedirected ==
    [][ \A r \in AuthReqIds :
          ( /\ IsLogoutAnswer(last)
            /\ SameValue(last.cookies.idToken, cookies.idToken)
            /\ \A c \in UserCallIds : userCall[c].pc = "idle"
            /\ AuthStep(r) ) =>
              /\ last'.outcome = "redirect"
              /\ ~Admitted(r)
      ]_vars
====
